---- MODULE Spec2Model ----
(***************************************************************************)
(* Model of the south-bound plugin: the Keycloak token cache               *)
(* (app/utils/token_manager.py), the identifier sanitizers and the manifest *)
(* builder (app/utils/eaas2camara_builder.py) and the descriptor resolver   *)
(* (app/utils/descriptor_builders.py).                                      *)
(***************************************************************************)
EXTENDS Integers, Sequences, FiniteSets, TLC

\* ------------------------------------------------------------------------
\* Bounds of the model
\* ------------------------------------------------------------------------
NumThreads == 2
MaxCalls == 3
MaxTicks == 2
MaxHead == 2
MaxContainers == 2
MaxUnits == 2
MaxPad == 1
MaxRecords == 2

\* ------------------------------------------------------------------------
\* Program constants
\* ------------------------------------------------------------------------
refresh_skew_seconds == 30
DefaultExpiresIn == 60

\* One step of the clock, in seconds: half of the skew window.
TickSeconds == refresh_skew_seconds \div 2

Threads == 1..NumThreads
None == 0
NoThread == 0

\* expires_in values the token endpoint answers with: one shorter than the skew
\* window and one longer than it (an answer without expires_in counts as 60).
ExpiresInValues == {TickSeconds, refresh_skew_seconds + TickSeconds}

\* Answers of the token endpoint to one POST: a status, whether the JSON body
\* carries access_token ("ok"), carries it empty or lacks it, and expires_in:
\* a number ("num", in expires), "absent", or "bad" for a value float() rejects.
Responses ==
    [status : {401}, token : {"missing"}, expKind : {"absent"}, expires : {0}]
    \cup [status : {200}, token : {"missing", "empty"}, expKind : {"absent"},
          expires : {0}]
    \cup [status : {200}, token : {"ok"}, expKind : {"absent", "bad"},
          expires : {0}]
    \cup [status : {200}, token : {"ok"}, expKind : {"num"},
          expires : ExpiresInValues]

NoResp == [status |-> 0, token |-> "missing", expKind |-> "absent", expires |-> 0]

VARIABLES
    mode,           \* which part of the program this behaviour exercises
    stage,          \* sanitizers / pipeline: the last function applied
    raw,            \* sanitizers: the input string
    clean,          \* sanitizers: the string returned
    payload,        \* pipeline: the application-repository payload
    descriptor,     \* pipeline: the AppDescriptor built from the payload
    manifest,       \* pipeline: the AppManifest built from the descriptor
    sent,           \* endpoints: the requests sent to other services, in order
    now,            \* time.time(), in seconds
    access_token,   \* TokenManager._access_token (None = 0, else a token id)
    expires_at,     \* TokenManager._expires_at
    lock,           \* TokenManager._lock: NoThread or the holder
    pc,             \* per thread: position in get_token / _refresh
    chk,            \* per thread: what the call's last _is_valid read (token, clock, expiry)
    resp,           \* per thread: the response _refresh received
    ret,            \* per thread: the token get_token returned (None = none yet)
    path,           \* per thread: the way the current call left get_token
    calls,          \* number of get_token calls started
    posts,          \* number of token-endpoint POSTs sent
    failed,         \* some call has raised
    tokExp          \* the expiry line 87 stored for the cached token (-1: not yet)

tmVars == <<now, access_token, expires_at, lock, pc, chk, resp, ret, path,
            calls, posts, failed, tokExp>>

\* What the token cache never touches.
pureVars == <<mode, stage, raw, clean, payload, descriptor, manifest, sent>>

vars == <<pureVars, tmVars>>

MaxTime == MaxTicks * TickSeconds

NoChk == [tok |-> None, at |-> 0, exp |-> 0]

\* ------------------------------------------------------------------------
\* TokenManager
\* ------------------------------------------------------------------------

\* __init__ (lines 34-36): lock free, no token, _expires_at = 0.0
TMInit ==
    /\ now = 0
    /\ access_token = None
    /\ expires_at = 0
    /\ lock = NoThread
    /\ pc = [t \in Threads |-> "idle"]
    /\ chk = [t \in Threads |-> NoChk]
    /\ resp = [t \in Threads |-> NoResp]
    /\ ret = [t \in Threads |-> None]
    /\ path = [t \in Threads |-> "none"]
    /\ calls = 0
    /\ posts = 0
    /\ failed = FALSE
    /\ tokExp = -1

\* A validity test that forgets the skew window.
IsValidAt_NoSkew(tok, t, exp) == tok # None /\ t < exp

\* _is_valid (lines 38-40) on the values it read.
IsValidAt(tok, t, exp) == tok # None /\ t < exp - refresh_skew_seconds

\* The cache is Valid at the current instant.
CacheValid == IsValidAt(access_token, now, expires_at)

\* time.time() advances.
Tick ==
    /\ mode = "token"
    /\ now + TickSeconds <= MaxTime
    /\ now' = now + TickSeconds
    /\ UNCHANGED <<pureVars, access_token, expires_at, lock, pc, chk, resp, ret,
                   path, calls, posts, failed, tokExp>>

\* A caller enters get_token (line 42).
Call(t) ==
    /\ mode = "token"
    /\ pc[t] \in {"idle", "done", "raised"}
    /\ calls < MaxCalls
    /\ calls' = calls + 1
    /\ pc' = [pc EXCEPT ![t] = "v1_tok"]
    /\ chk' = [chk EXCEPT ![t] = NoChk]
    /\ resp' = [resp EXCEPT ![t] = NoResp]
    /\ ret' = [ret EXCEPT ![t] = None]
    /\ path' = [path EXCEPT ![t] = "none"]
    /\ UNCHANGED <<pureVars, now, access_token, expires_at, lock, posts, failed,
                   tokExp>>

\* Line 46, _is_valid line 39 left operand: self._access_token is not None.
\* A None token ends the check (short circuit) and sends the caller to the lock.
FastReadToken(t) ==
    /\ mode = "token"
    /\ pc[t] = "v1_tok"
    /\ chk' = [chk EXCEPT ![t].tok = access_token]
    /\ pc' = [pc EXCEPT ![t] = IF access_token = None THEN "acquire" ELSE "v1_clk"]
    /\ UNCHANGED <<pureVars, now, access_token, expires_at, lock, resp, ret, path,
                   calls, posts, failed, tokExp>>

\* _is_valid line 39: time.time() is evaluated before _expires_at is read.
FastReadClock(t) ==
    /\ mode = "token"
    /\ pc[t] = "v1_clk"
    /\ chk' = [chk EXCEPT ![t].at = now]
    /\ pc' = [pc EXCEPT ![t] = "v1_exp"]
    /\ UNCHANGED <<pureVars, now, access_token, expires_at, lock, resp, ret, path,
                   calls, posts, failed, tokExp>>

\* _is_valid lines 39-40: read _expires_at and compare; line 46 branches.
FastCompare(t) ==
    /\ mode = "token"
    /\ pc[t] = "v1_exp"
    /\ chk' = [chk EXCEPT ![t].exp = expires_at]
    /\ pc' = [pc EXCEPT ![t] =
                IF IsValidAt(chk[t].tok, chk[t].at, expires_at)
                THEN "ret1" ELSE "acquire"]
    /\ UNCHANGED <<pureVars, now, access_token, expires_at, lock, resp, ret, path,
                   calls, posts, failed, tokExp>>

\* Line 47: return self._access_token, read again, without the lock.
FastReturn(t) ==
    /\ mode = "token"
    /\ pc[t] = "ret1"
    /\ ret' = [ret EXCEPT ![t] = access_token]
    /\ path' = [path EXCEPT ![t] = "fast"]
    /\ chk' = [chk EXCEPT ![t] = NoChk]
    /\ pc' = [pc EXCEPT ![t] = "done"]
    /\ UNCHANGED <<pureVars, now, access_token, expires_at, lock, resp, calls,
                   posts, failed, tokExp>>

\* Entering the with block without waiting for the holder.
Acquire_NoExclusion(t) ==
    /\ mode = "token"
    /\ pc[t] = "acquire"
    /\ lock' = t
    /\ pc' = [pc EXCEPT ![t] = "v2"]
    /\ UNCHANGED <<pureVars, now, access_token, expires_at, chk, resp, ret, path,
                   calls, posts, failed, tokExp>>

\* Line 49: with self._lock -- blocks while another thread holds the lock.
Acquire(t) ==
    /\ mode = "token"
    /\ pc[t] = "acquire"
    /\ lock = NoThread
    /\ lock' = t
    /\ pc' = [pc EXCEPT ![t] = "v2"]
    /\ UNCHANGED <<pureVars, now, access_token, expires_at, chk, resp, ret, path,
                   calls, posts, failed, tokExp>>

\* A re-check that always falls through to _refresh.
LockedCheck_NoRecheck(t) ==
    /\ mode = "token"
    /\ pc[t] = "v2"
    /\ chk' = [chk EXCEPT ![t] = [tok |-> access_token, at |-> now,
                                  exp |-> expires_at]]
    /\ pc' = [pc EXCEPT ![t] = "post"]
    /\ UNCHANGED <<pureVars, now, access_token, expires_at, lock, resp, ret, path,
                   calls, posts, failed, tokExp>>

\* Line 50: _is_valid inside the lock.  Only the holder writes the cache, so
\* the reads of the check see one state of it.
LockedCheck(t) ==
    /\ mode = "token"
    /\ pc[t] = "v2"
    /\ chk' = [chk EXCEPT ![t] = [tok |-> access_token, at |-> now,
                                  exp |-> expires_at]]
    /\ pc' = [pc EXCEPT ![t] =
                IF IsValidAt(access_token, now, expires_at)
                THEN "ret2" ELSE "post"]
    /\ UNCHANGED <<pureVars, now, access_token, expires_at, lock, resp, ret, path,
                   calls, posts, failed, tokExp>>

\* Line 51: return the cached token; leaving the with block releases the lock.
LockedReturn(t) ==
    /\ mode = "token"
    /\ pc[t] = "ret2"
    /\ ret' = [ret EXCEPT ![t] = access_token]
    /\ path' = [path EXCEPT ![t] = "recheck"]
    /\ chk' = [chk EXCEPT ![t] = NoChk]
    /\ pc' = [pc EXCEPT ![t] = "done"]
    /\ lock' = IF lock = t THEN NoThread ELSE lock
    /\ UNCHANGED <<pureVars, now, access_token, expires_at, resp, calls,
                   posts, failed, tokExp>>

\* An exception that leaves get_token with the lock still held.
Raise_KeepsLock(t) ==
    /\ pc' = [pc EXCEPT ![t] = "raised"]
    /\ lock' = lock
    /\ failed' = TRUE
    /\ path' = [path EXCEPT ![t] = "raise"]
    /\ chk' = [chk EXCEPT ![t] = NoChk]

\* An exception leaves get_token through the with block: lock released.
Raise(t) ==
    /\ pc' = [pc EXCEPT ![t] = "raised"]
    /\ lock' = IF lock = t THEN NoThread ELSE lock
    /\ failed' = TRUE
    /\ path' = [path EXCEPT ![t] = "raise"]
    /\ chk' = [chk EXCEPT ![t] = NoChk]

\* Lines 57-71: _refresh sends the POST and client.post raises (connection
\* error, timeout).
PostError(t) ==
    /\ mode = "token"
    /\ pc[t] = "post"
    /\ posts' = posts + 1
    /\ Raise(t)
    /\ UNCHANGED <<pureVars, now, access_token, expires_at, resp, ret, calls,
                   tokExp>>

\* A check of the response that looks at the status only.
Rejects_StatusOnly(r) == r.status # 200

\* The checks of lines 73 and 82 on a response: TRUE when _refresh raises.
Rejects(r) == r.status # 200 \/ r.token # "ok"

\* Lines 57-84: _refresh sends the POST and the response arrives; non-200 or a
\* missing/empty access_token raises RuntimeError, otherwise _refresh goes on
\* to store the token.  The caller holds the lock from the POST to the answer.
Exchange(t) ==
    /\ mode = "token"
    /\ pc[t] = "post"
    /\ posts' = posts + 1
    /\ \E r \in Responses :
        /\ resp' = [resp EXCEPT ![t] = r]
        /\ IF Rejects(r)
           THEN /\ Raise(t)
                /\ UNCHANGED <<pureVars, now, access_token, expires_at, ret,
                               calls, tokExp>>
           ELSE /\ pc' = [pc EXCEPT ![t] = "w_tok"]
                /\ UNCHANGED <<pureVars, now, access_token, expires_at, lock, chk,
                               ret, path, calls, failed, tokExp>>

\* Line 86: self._access_token = token.  The token of exchange k has id k.
WriteToken(t) ==
    /\ mode = "token"
    /\ pc[t] = "w_tok"
    /\ access_token' = posts
    /\ tokExp' = -1
    /\ pc' = [pc EXCEPT ![t] = "w_exp"]
    /\ UNCHANGED <<pureVars, now, expires_at, lock, chk, resp, ret, path, calls,
                   posts, failed>>

\* Line 80: payload.get("expires_in", 60)
ExpiresIn(r) == IF r.expKind = "absent" THEN DefaultExpiresIn ELSE r.expires

\* Line 87: self._expires_at = time.time() + float(expires_in); float() raises
\* on a value that is no number, after line 86 has stored the token.
WriteExpiry(t) ==
    /\ mode = "token"
    /\ pc[t] = "w_exp"
    /\ IF resp[t].expKind = "bad"
       THEN /\ Raise(t)
            /\ UNCHANGED <<pureVars, now, access_token, expires_at, resp, ret,
                           calls, posts, tokExp>>
       ELSE /\ expires_at' = now + ExpiresIn(resp[t])
            /\ chk' = [chk EXCEPT ![t].at = now]
            /\ tokExp' = now + ExpiresIn(resp[t])
            /\ pc' = [pc EXCEPT ![t] = "ret3"]
            /\ UNCHANGED <<pureVars, now, access_token, lock, resp, ret, path,
                           calls, posts, failed>>

\* Line 54: return self._access_token after _refresh, with no validity check;
\* leaving the with block releases the lock.
RefreshReturn(t) ==
    /\ mode = "token"
    /\ pc[t] = "ret3"
    /\ ret' = [ret EXCEPT ![t] = access_token]
    /\ path' = [path EXCEPT ![t] = "refresh"]
    /\ resp' = [resp EXCEPT ![t] = NoResp]
    /\ chk' = [chk EXCEPT ![t] = NoChk]
    /\ pc' = [pc EXCEPT ![t] = "done"]
    /\ lock' = IF lock = t THEN NoThread ELSE lock
    /\ UNCHANGED <<pureVars, now, access_token, expires_at, calls,
                   posts, failed, tokExp>>

\* The state of the variables a behaviour does not use.
PureIdle ==
    /\ stage = "none"
    /\ raw = <<>>
    /\ clean = <<>>
    /\ payload = <<>>
    /\ descriptor = <<>>
    /\ manifest = <<>>
    /\ sent = <<>>

TokenInit == mode = "token" /\ PureIdle /\ TMInit

TokenNext ==
    \/ Tick
    \/ \E t \in Threads : Call(t)
    \/ \E t \in Threads : FastReadToken(t)
    \/ \E t \in Threads : FastReadClock(t)
    \/ \E t \in Threads : FastCompare(t)
    \/ \E t \in Threads : FastReturn(t)
    \/ \E t \in Threads : Acquire(t)
    \/ \E t \in Threads : LockedCheck(t)
    \/ \E t \in Threads : LockedReturn(t)
    \/ \E t \in Threads : PostError(t)
    \/ \E t \in Threads : Exchange(t)
    \/ \E t \in Threads : WriteToken(t)
    \/ \E t \in Threads : WriteExpiry(t)
    \/ \E t \in Threads : RefreshReturn(t)

Spec == TokenInit /\ [][TokenNext]_vars

\* ------------------------------------------------------------------------
\* Identifier sanitizers (eaas2camara_builder.py).  A string is a sequence of
\* one-character strings.
\* ------------------------------------------------------------------------

Lower == {"a", "b", "c", "d", "e", "f", "g", "h", "i", "j", "k", "l", "m",
          "n", "o", "p", "q", "r", "s", "t", "u", "v", "w", "x", "y", "z"}
Upper == {"A", "B", "C", "D", "E", "F", "G", "H", "I", "J", "K", "L", "M",
          "N", "O", "P", "Q", "R", "S", "T", "U", "V", "W", "X", "Y", "Z"}
Digits == {"0", "1", "2", "3", "4", "5", "6", "7", "8", "9"}
Letters == Lower \cup Upper
WordChars == Letters \cup Digits \cup {"_"}

Min(a, b) == IF a < b THEN a ELSE b

\* s[:n]
Take(s, n) == SubSeq(s, 1, Min(n, Len(s)))

\* A replacement that leaves every character as it is.
ReplaceNonWord_Identity(s) == s

\* re.sub(r'[^A-Za-z0-9_]', '_', s)
ReplaceNonWord(s) ==
    [i \in 1..Len(s) |-> IF s[i] \in WordChars THEN s[i] ELSE "_"]

\* A test of the first character that accepts every string.
StartsWithLetter_Always(s) == TRUE

\* re.match(r'^[A-Za-z]', s)
StartsWithLetter(s) == Len(s) >= 1 /\ s[1] \in Letters

\* The whole of s is a letter followed by lo..hi word characters.
FullMatch(s, lo, hi) ==
    /\ Len(s) >= 1 + lo
    /\ Len(s) <= 1 + hi
    /\ s[1] \in Letters
    /\ \A i \in 2..Len(s) : s[i] \in WordChars

\* re.match(r'^[A-Za-z][A-Za-z0-9_]{lo,hi}$', s): $ also matches before a
\* newline that ends the string.
ReMatch(s, lo, hi) ==
    \/ FullMatch(s, lo, hi)
    \/ (Len(s) >= 1 /\ s[Len(s)] = "\n" /\ FullMatch(Take(s, Len(s) - 1), lo, hi))

\* A normalization that prefixes the letter whatever the first character is.
AppNameNormalized_AlwaysPrefixed(text) ==
    LET s1 == ReplaceNonWord(text)
        s2 == <<"A">> \o s1
        s3 == IF Len(s2) < 2 THEN s2 \o <<"_", "1">> ELSE s2
    IN  IF Len(s3) > 64 THEN Take(s3, 64) ELSE s3

\* _sanitize_app_name lines 18-28: the value before the final re-validation.
AppNameNormalized(text) ==
    LET s1 == ReplaceNonWord(text)
        s2 == IF StartsWithLetter(s1) THEN s1 ELSE <<"A">> \o s1
        s3 == IF Len(s2) < 2 THEN s2 \o <<"_", "1">> ELSE s2
    IN  IF Len(s3) > 64 THEN Take(s3, 64) ELSE s3

\* _sanitize_app_name lines 10-34
sanitize_app_name(text) ==
    IF text = <<>> THEN <<"A", "p", "p", "_", "1">>
    ELSE LET s == AppNameNormalized(text)
         IN  IF ~ReMatch(s, 1, 63) THEN <<"A", "p", "p", "_">> \o Take(s, 60) ELSE s

\* _sanitize_app_provider lines 41-54: the value before the final fallback.
AppProviderNormalized(text) ==
    LET r0 == IF text = <<>>
              THEN <<"P", "r", "o", "v", "i", "d", "e", "r", "_",
                     "0", "0", "0", "0", "0", "0", "0", "0">>
              ELSE text
        s1 == ReplaceNonWord(r0)
        s2 == IF StartsWithLetter(s1) THEN s1 ELSE <<"P", "_">> \o s1
        s3 == IF Len(s2) < 8 THEN s2 \o <<"_", "p", "r", "o", "v", "i", "d", "e", "r">> ELSE s2
    IN  IF Len(s3) > 64 THEN Take(s3, 64) ELSE s3

\* _sanitize_app_provider lines 37-60
sanitize_app_provider(text) ==
    LET s == AppProviderNormalized(text)
    IN  IF ~ReMatch(s, 7, 63)
        THEN <<"P", "r", "o", "v", "i", "d", "e", "r", "_">> \o Take(ReplaceNonWord(s), 55)
        ELSE s

\* _sanitize_interface_id lines 67-78: the value before the final fallback.
InterfaceIdNormalized(text) ==
    LET r0 == IF text = <<>> THEN <<"e", "t", "h", "0">> ELSE text
        s1 == ReplaceNonWord(r0)
        s2 == IF StartsWithLetter(s1) THEN s1 ELSE <<"i", "_">> \o s1
        s3 == IF Len(s2) < 4 THEN s2 \o <<"_", "e", "t", "h">> ELSE s2
    IN  IF Len(s3) > 32 THEN Take(s3, 32) ELSE s3

\* _sanitize_interface_id lines 63-83
sanitize_interface_id(text) ==
    LET s == InterfaceIdNormalized(text)
    IN  IF ~ReMatch(s, 3, 31) THEN <<"i", "f", "_">> \o Take(s, 30) ELSE s

\* _sanitize_component_name lines 86-88
sanitize_component_name(text) == sanitize_app_name(text)

\* ------------------------------------------------------------------------
\* Descriptor resolution (descriptor_builders.py).  An optional value is the
\* empty sequence (None, key absent) or a one-element sequence.
\* ------------------------------------------------------------------------

RequiredKeys == {"appDescriptorId", "appDescriptorExtInvariantId", "appProvider",
                 "appProductName", "appSoftwareVersion", "appDescriptorVersion"}

\* payload.get(key) or []
GetList(pl, key) == IF key \in pl.absent THEN <<>> ELSE pl[key]

\* The value a dict built by successive d[x.id] = x holds for id: the last
\* element of the list carrying it.
RECURSIVE LastWithId(_, _, _)
LastWithId(items, field, id) ==
    IF items[Len(items)][field] = id THEN items[Len(items)]
    ELSE LastWithId(SubSeq(items, 1, Len(items) - 1), field, id)

IdsOf(items, field) == {items[i][field] : i \in 1..Len(items)}

\* Lines 44-54 with an unknown image identifier left in place.
ResolveContainer_KeepsId(oc, sw_images) ==
    [osContainerDescId |-> oc.osContainerDescId,
     swImageDesc |->
        IF oc.swImageDesc # <<>> /\ oc.swImageDesc[1] \in IdsOf(sw_images, "id")
        THEN <<LastWithId(sw_images, "id", oc.swImageDesc[1])>>
        ELSE oc.swImageDesc,
     requestedCpuResources |-> oc.requestedCpuResources,
     cpuResourceLimit |-> oc.cpuResourceLimit,
     requestedMemoryResource |-> oc.requestedMemoryResource,
     memoryResourceLimit |-> oc.memoryResourceLimit]

\* Lines 44-54: one raw container with its image identifier replaced by the
\* image object, or left without image when the identifier is unknown.
ResolveContainer(oc, sw_images) ==
    [osContainerDescId |-> oc.osContainerDescId,
     swImageDesc |->
        IF oc.swImageDesc # <<>> /\ oc.swImageDesc[1] \in IdsOf(sw_images, "id")
        THEN <<LastWithId(sw_images, "id", oc.swImageDesc[1])>>
        ELSE <<>>,
     requestedCpuResources |-> oc.requestedCpuResources,
     cpuResourceLimit |-> oc.cpuResourceLimit,
     requestedMemoryResource |-> oc.requestedMemoryResource,
     memoryResourceLimit |-> oc.memoryResourceLimit]

\* Lines 40-54: os_containers
ResolveContainers(raw_os_containers, sw_images) ==
    [i \in 1..Len(raw_os_containers) |->
        ResolveContainer(raw_os_containers[i], sw_images)]

\* Lines 61-67 with each container put in front of those found before it.
RECURSIVE ResolveIds_Reversed(_, _)
ResolveIds_Reversed(oc_ids, os_containers) ==
    IF oc_ids = <<>> THEN <<>>
    ELSE LET rest == ResolveIds_Reversed(Tail(oc_ids), os_containers)
         IN  IF Head(oc_ids) \in IdsOf(os_containers, "osContainerDescId")
             THEN rest \o
                  <<LastWithId(os_containers, "osContainerDescId", Head(oc_ids))>>
             ELSE rest

\* Lines 61-67: the containers of the identifiers that os_container_by_id knows.
RECURSIVE ResolveIds(_, _)
ResolveIds(oc_ids, os_containers) ==
    IF oc_ids = <<>> THEN <<>>
    ELSE LET rest == ResolveIds(Tail(oc_ids), os_containers)
         IN  IF Head(oc_ids) \in IdsOf(os_containers, "osContainerDescId")
             THEN <<LastWithId(os_containers, "osContainerDescId", Head(oc_ids))>>
                  \o rest
             ELSE rest

\* Lines 60-72: one VDU with its container identifiers replaced by objects.
ResolveVdu(v, os_containers) ==
    [vduId |-> v.vduId, name |-> v.name,
     osContainerDesc |-> ResolveIds(v.osContainerDesc, os_containers)]

\* Lines 91-93: a flavour dict that has "istantiationLevel" and no
\* "instantiationLevel" gets the value moved under the second key.
FixFlavour(df) ==
    IF df.istantiationLevel # <<>> /\ df.instantiationLevel = <<>>
    THEN [df EXCEPT !.instantiationLevel = df.istantiationLevel,
                    !.istantiationLevel = <<>>]
    ELSE df

FixFlavours(raw_df_list) ==
    [i \in 1..Len(raw_df_list) |-> FixFlavour(raw_df_list[i])]

\* The payload mapping after the call: lines 91-93 rewrite the flavour dicts
\* of the payload's own list in place; nothing else is assigned to.
PayloadAfter(pl) ==
    IF "deploymentFlavour" \in pl.absent THEN pl
    ELSE [pl EXCEPT !.deploymentFlavour = FixFlavours(@)]

\* build_app_descriptor_from_repo_payload, lines 30-107, for a payload that
\* carries the required keys.
ResolvedDescriptor(pl) ==
    LET sw_images == GetList(pl, "swImageDesc")
        os_containers ==
            ResolveContainers(GetList(pl, "osContainerDesc"), sw_images)
        raw_vdus == GetList(pl, "vdu")
    IN  [appProductName |-> pl.appProductName,
         appProvider |-> pl.appProvider,
         appSoftwareVersion |-> pl.appSoftwareVersion,
         swImageDesc |-> sw_images,
         vdu |-> [i \in 1..Len(raw_vdus) |-> ResolveVdu(raw_vdus[i], os_containers)],
         deploymentFlavour |-> FixFlavours(GetList(pl, "deploymentFlavour")),
         virtualCpd |-> GetList(pl, "virtualCpd")]

\* Lines 20-28 with the first subscript only.
RaisesKeyError_IdOnly(pl) == "appDescriptorId" \in pl.missing

\* Lines 20-28: payload["..."] raises KeyError when a required key is absent.
RaisesKeyError(pl) == pl.missing \cap RequiredKeys # {}

\* ------------------------------------------------------------------------
\* Manifest building (eaas2camara_builder.py)
\* ------------------------------------------------------------------------

\* Lines 136-139: the CPU figure one container adds.
CpuOf(oc) ==
    IF oc.requestedCpuResources # <<>> THEN oc.requestedCpuResources[1]
    ELSE IF oc.cpuResourceLimit # <<>> THEN oc.cpuResourceLimit[1]
    ELSE 0

\* Lines 142-145: the memory figure one container adds.
MemOf(oc) ==
    IF oc.memoryResourceLimit # <<>> THEN oc.memoryResourceLimit[1]
    ELSE IF oc.requestedMemoryResource # <<>> THEN oc.requestedMemoryResource[1]
    ELSE 0

\* An accumulation that keeps the last container's figure.
Accumulate_Overwrite(total, value) == IF value # 0 THEN value ELSE total

\* Lines 137, 139, 143, 145: total += value
Accumulate(total, value) == total + value

\* Lines 134-145: the inner loop over the containers of one unit, from the
\* running totals <<cpu, mem>>.
RECURSIVE SumContainers(_, _)
SumContainers(ocs, totals) ==
    IF ocs = <<>> THEN totals
    ELSE SumContainers(Tail(ocs),
                       <<Accumulate(totals[1], CpuOf(Head(ocs))),
                         Accumulate(totals[2], MemOf(Head(ocs)))>>)

\* Lines 130-145: the loop over the units.
RECURSIVE SumUnits(_, _)
SumUnits(vdus, totals) ==
    IF vdus = <<>> THEN totals
    ELSE SumUnits(Tail(vdus), SumContainers(Head(vdus).osContainerDesc, totals))

\* A floor that lets a zero total through.
FloorTotal_NegativeOnly(total, floor) == IF total < 0 THEN floor ELSE total

\* Lines 146-149: if total <= 0: total = floor
FloorTotal(total, floor) == IF total <= 0 THEN floor ELSE total

\* Lines 130-149: <<total_cpu, total_mem>> as handed to CpuPool.
AggregateResources(vdus) ==
    LET totals == SumUnits(vdus, <<0, 0>>)
    IN  <<FloorTotal(totals[1], 1), FloorTotal(totals[2], 1024)>>

LowerSeq == <<"a", "b", "c", "d", "e", "f", "g", "h", "i", "j", "k", "l", "m",
              "n", "o", "p", "q", "r", "s", "t", "u", "v", "w", "x", "y", "z">>
UpperSeq == <<"A", "B", "C", "D", "E", "F", "G", "H", "I", "J", "K", "L", "M",
              "N", "O", "P", "Q", "R", "S", "T", "U", "V", "W", "X", "Y", "Z">>

\* str.upper() on one character and on a string
UpperChar(c) ==
    IF c \in Lower THEN UpperSeq[CHOOSE i \in 1..26 : LowerSeq[i] = c] ELSE c
StrUpper(s) == [i \in 1..Len(s) |-> UpperChar(s[i])]

\* The member names of camara.Protocol.
ProtocolNames == {<<"T", "C", "P">>, <<"U", "D", "P">>, <<"A", "N", "Y">>}

\* Lines 199-215 without the upper() of line 207.
ProtocolOf_CaseSensitive(pd) ==
    LET protocol_str ==
            IF pd.protocol # <<>> /\ pd.protocol[1] # <<>>
            THEN pd.protocol[1] ELSE <<"T", "C", "P">>
    IN  IF protocol_str \in ProtocolNames THEN protocol_str ELSE <<"A", "N", "Y">>

\* Lines 199-215: the protocol of one port binding.
ProtocolOf(pd) ==
    LET protocol_str ==
            StrUpper(IF pd.protocol # <<>> /\ pd.protocol[1] # <<>>
                     THEN pd.protocol[1] ELSE <<"T", "C", "P">>)
    IN  IF protocol_str \in ProtocolNames THEN protocol_str ELSE <<"A", "N", "Y">>

\* Lines 194-224: the interface derived from one port binding.
NetworkInterface(vdu, vcpd, pd) ==
    [interfaceId |->
        sanitize_interface_id(
            IF pd.name # <<>> /\ pd.name[1] # <<>> THEN pd.name[1]
            ELSE vdu.vduId \o <<"_">> \o vcpd.cpdId),
     protocol |-> ProtocolOf(pd),
     port |-> pd.port,
     visibilityType |-> "VISIBILITY_INTERNAL"]

\* Lines 178-181: vcpd_by_vdu_id.get(vdu_id, []): a connection point is
\* appended once for each occurrence of vdu_id in its vdu list.
RECURSIVE Occurrences(_, _)
Occurrences(ids, id) ==
    IF ids = <<>> THEN 0
    ELSE (IF Head(ids) = id THEN 1 ELSE 0) + Occurrences(Tail(ids), id)

RECURSIVE Repeat(_, _)
Repeat(x, n) == IF n = 0 THEN <<>> ELSE <<x>> \o Repeat(x, n - 1)

RECURSIVE VcpdsByVduId(_, _)
VcpdsByVduId(vcpds, vdu_id) ==
    IF vcpds = <<>> THEN <<>>
    ELSE Repeat(Head(vcpds), Occurrences(Head(vcpds).vdu, vdu_id))
         \o VcpdsByVduId(Tail(vcpds), vdu_id)

\* Lines 192-224: the interfaces of the port bindings of one service data entry.
PortInterfaces(vdu, vcpd, pds) ==
    [i \in 1..Len(pds) |-> NetworkInterface(vdu, vcpd, pds[i])]

\* Lines 190-224: over the additionalServiceData of one connection point.
RECURSIVE AsdInterfaces(_, _, _)
AsdInterfaces(vdu, vcpd, asds) ==
    IF asds = <<>> THEN <<>>
    ELSE PortInterfaces(vdu, vcpd, Head(asds).portData)
         \o AsdInterfaces(vdu, vcpd, Tail(asds))

\* Lines 186-224: netifs of one unit.
RECURSIVE NetIfs(_, _)
NetIfs(vdu, vcpds) ==
    IF vcpds = <<>> THEN <<>>
    ELSE AsdInterfaces(vdu, Head(vcpds), Head(vcpds).additionalServiceData)
         \o NetIfs(vdu, Tail(vcpds))

\* Lines 185-233 without the test of line 226.
RECURSIVE UnitComponents_KeepsEmpty(_, _)
UnitComponents_KeepsEmpty(vdus, vcpds) ==
    IF vdus = <<>> THEN <<>>
    ELSE LET vdu == Head(vdus)
         IN  <<[componentName |->
                    sanitize_component_name(
                        IF vdu.name # <<>> /\ vdu.name[1] # <<>>
                        THEN vdu.name[1] ELSE vdu.vduId),
                networkInterfaces |->
                    NetIfs(vdu, VcpdsByVduId(vcpds, vdu.vduId))]>>
             \o UnitComponents_KeepsEmpty(Tail(vdus), vcpds)

\* Lines 185-233: the components of the units that have interfaces.
RECURSIVE UnitComponents(_, _)
UnitComponents(vdus, vcpds) ==
    IF vdus = <<>> THEN <<>>
    ELSE LET vdu == Head(vdus)
             netifs == NetIfs(vdu, VcpdsByVduId(vcpds, vdu.vduId))
             rest == UnitComponents(Tail(vdus), vcpds)
         IN  IF netifs # <<>>
             THEN <<[componentName |->
                        sanitize_component_name(
                            IF vdu.name # <<>> /\ vdu.name[1] # <<>>
                            THEN vdu.name[1] ELSE vdu.vduId),
                     networkInterfaces |-> netifs]>> \o rest
             ELSE rest

\* A component list without the fallback entry.
ComponentSpec_NoFallback(app_descriptor) ==
    UnitComponents(app_descriptor.vdu, app_descriptor.virtualCpd)

\* Lines 176-242: component_spec with the fallback of lines 236-242.
ComponentSpec(app_descriptor) ==
    LET component_spec ==
            UnitComponents(app_descriptor.vdu, app_descriptor.virtualCpd)
    IN  IF component_spec = <<>>
        THEN <<[componentName |->
                    sanitize_component_name(app_descriptor.appProductName),
                networkInterfaces |-> <<>>]>>
        ELSE component_spec

\* Lines 110-119 reading the last image of the collection.
ImagePath_LastImage(app_descriptor) ==
    IF app_descriptor.swImageDesc # <<>>
    THEN LET img == app_descriptor.swImageDesc[Len(app_descriptor.swImageDesc)]
         IN  [name |-> IF img.swImage # <<>> /\ img.swImage[1] # <<>>
                       THEN img.swImage[1] ELSE img.name,
              version |-> img.version]
    ELSE [name |-> <<"a", "p", "p">>,
          version |-> <<"l", "a", "t", "e", "s", "t">>]

\* Lines 110-119: the name and the version that make up imagePath
\* (docker.io/library/<name>:<version>).
ImagePath(app_descriptor) ==
    IF app_descriptor.swImageDesc # <<>>
    THEN LET img == app_descriptor.swImageDesc[1]
         IN  [name |-> IF img.swImage # <<>> /\ img.swImage[1] # <<>>
                       THEN img.swImage[1] ELSE img.name,
              version |-> img.version]
    ELSE [name |-> <<"a", "p", "p">>,
          version |-> <<"l", "a", "t", "e", "s", "t">>]

\* build_camara_app_manifest, lines 92-258
BuildManifest(app_descriptor) ==
    LET totals == AggregateResources(app_descriptor.vdu)
    IN  [name |-> sanitize_app_name(app_descriptor.appProductName),
         appProvider |-> sanitize_app_provider(app_descriptor.appProvider),
         version |-> app_descriptor.appSoftwareVersion,
         imagePath |-> ImagePath(app_descriptor),
         numCPU |-> totals[1],
         memory |-> totals[2],
         minNodeCpu |-> IF totals[1] > 1 THEN totals[1] ELSE 1,
         minNodeMemory |-> totals[2],
         componentSpec |-> ComponentSpec(app_descriptor)]

\* ------------------------------------------------------------------------
\* The sanitizers applied to bounded inputs
\* ------------------------------------------------------------------------

\* Sequences over S of length at most n.
SeqsUpTo(S, n) == UNION {[1..k -> S] : k \in 0..n}

\* Input characters: a lower-case and an upper-case letter, a digit, the
\* underscore, and two characters outside [A-Za-z0-9_].
SanAlphabet == {"a", "Z", "7", "_", "-", "\n"}

\* Lengths of the run of one character that follows the head of an input;
\* they put the input's length around each minimum and maximum of the grammars.
FillLens == (0..7) \cup (28..33) \cup (60..66)

SanInputs ==
    {h \o Repeat(c, k) : h \in SeqsUpTo(SanAlphabet, MaxHead),
                         c \in {"b", "-"}, k \in FillLens}

SanInit ==
    /\ mode = "sanitize"
    /\ stage = "input"
    /\ raw \in SanInputs
    /\ clean = <<>>
    /\ payload = <<>>
    /\ descriptor = <<>>
    /\ manifest = <<>>
    /\ sent = <<>>
    /\ TMInit

SanitizeAppName ==
    /\ mode = "sanitize" /\ stage = "input"
    /\ clean' = sanitize_app_name(raw)
    /\ stage' = "app_name"
    /\ UNCHANGED <<mode, raw, payload, descriptor, manifest, sent, tmVars>>

SanitizeAppProvider ==
    /\ mode = "sanitize" /\ stage = "input"
    /\ clean' = sanitize_app_provider(raw)
    /\ stage' = "app_provider"
    /\ UNCHANGED <<mode, raw, payload, descriptor, manifest, sent, tmVars>>

SanitizeInterfaceId ==
    /\ mode = "sanitize" /\ stage = "input"
    /\ clean' = sanitize_interface_id(raw)
    /\ stage' = "interface_id"
    /\ UNCHANGED <<mode, raw, payload, descriptor, manifest, sent, tmVars>>

SanitizeComponentName ==
    /\ mode = "sanitize" /\ stage = "input"
    /\ clean' = sanitize_component_name(raw)
    /\ stage' = "component_name"
    /\ UNCHANGED <<mode, raw, payload, descriptor, manifest, sent, tmVars>>

SanNext ==
    \/ SanitizeAppName
    \/ SanitizeAppProvider
    \/ SanitizeInterfaceId
    \/ SanitizeComponentName

SanSpec == SanInit /\ [][SanNext]_vars

\* ------------------------------------------------------------------------
\* The pipeline of post_application_onboarding applied to bounded payloads:
\* build_app_descriptor_from_repo_payload, then build_camara_app_manifest
\* ------------------------------------------------------------------------

Some(x) == <<x>>
Nothing == <<>>

U1 == <<"u", "1">>
U2 == <<"u", "2">>
UX == <<"u", "X">>
CP1 == <<"c", "p", "-", "1">>

\* Images: an identifier with a name and a version; SwImageDesc declares no
\* swImage attribute, so getattr(img, "swImage", None) finds none.
Img1 == [id |-> "img1", swImage |-> Nothing, name |-> <<"n", "g", "i", "n", "x">>,
         version |-> <<"1", ".", "2", "5">>]
Img2 == [id |-> "img2", swImage |-> Nothing, name |-> <<"c", "a", "c", "h", "e">>,
         version |-> <<"7">>]
ImageLists == {<<>>, <<Img1>>, <<Img2, Img1>>}

Container(id, img, cpuReq, cpuLim, memReq, memLim) ==
    [osContainerDescId |-> id, swImageDesc |-> img,
     requestedCpuResources |-> cpuReq, cpuResourceLimit |-> cpuLim,
     requestedMemoryResource |-> memReq, memoryResourceLimit |-> memLim]

\* Raw containers: request and limit both given; a dangling image identifier
\* with a non-positive memory limit; no figures at all; a non-positive CPU
\* limit beside a request; a negative request.
ContainerRecs ==
    {Container("c1", Some("img1"), Some(1), Some(2), Some(256), Some(512)),
     Container("c1", Some("imgX"), Nothing, Some(2), Some(256), Some(0 - 512)),
     Container("c2", Nothing, Nothing, Nothing, Nothing, Nothing),
     Container("c2", Some("img1"), Some(1), Some(0), Nothing, Some(128)),
     Container("c3", Some("img2"), Some(0 - 1), Nothing, Some(256), Nothing)}

UnitRecs ==
    {[vduId |-> U1, name |-> Some(<<"w", "e", "b">>), osContainerDesc |-> <<"c1">>],
     [vduId |-> U1, name |-> Some(<<"w", "e", "b">>),
      osContainerDesc |-> <<"cX", "c3", "c1">>],
     [vduId |-> U2, name |-> Nothing, osContainerDesc |-> <<>>],
     [vduId |-> U2, name |-> Nothing, osContainerDesc |-> <<"c2", "c3">>]}

PortHttp == [name |-> Some(<<"h", "t", "t", "p">>), protocol |-> Some(<<"t", "c", "p">>), port |-> 80]
PortAnon == [name |-> Nothing, protocol |-> Nothing, port |-> 53]
PortQuic == [name |-> Some(<<"9", "-", "d", "n", "s">>), protocol |-> Some(<<"q", "u", "i", "c">>), port |-> 443]

ServiceDataLists ==
    {<<>>, <<[portData |-> <<PortHttp>>]>>,
     <<[portData |-> <<PortAnon, PortHttp>>], [portData |-> <<>>],
       [portData |-> <<PortQuic>>]>>}

CpdRecs ==
    {[cpdId |-> CP1, vdu |-> owners, additionalServiceData |-> asd] :
        owners \in {<<>>, <<U1>>, <<U1, U1>>, <<UX, U2, U1>>},
        asd \in ServiceDataLists}

CpdLists ==
    SeqsUpTo(CpdRecs, 1)
    \cup {<<a, b>> : a, b \in {c \in CpdRecs : c.vdu # <<>>
                                              /\ Len(c.additionalServiceData) = 1}}

OptionalKeys == {"swImageDesc", "osContainerDesc", "vdu", "virtualCpd",
                 "deploymentFlavour"}

Payload(missing, absent, images, containers, units, cpds) ==
    [missing |-> missing, absent |-> absent,
     appProductName |-> <<"w", "e", "b", " ", "a", "p", "p">>, appProvider |-> <<"a", "c", "m", "e">>,
     appSoftwareVersion |-> <<"1", ".", "0">>,
     swImageDesc |-> images, osContainerDesc |-> containers,
     vdu |-> units, deploymentFlavour |-> <<>>, virtualCpd |-> cpds]

\* Flavour dicts: the misspelt key only, the right key only, both keys.
FlavourTypo == [flavourId |-> "df1", istantiationLevel |-> Some(1),
                instantiationLevel |-> Nothing]
FlavourOk == [flavourId |-> "df2", istantiationLevel |-> Nothing,
              instantiationLevel |-> Some(2)]
FlavourBoth == [flavourId |-> "df3", istantiationLevel |-> Some(1),
                instantiationLevel |-> Some(2)]
FlavourLists == {<<FlavourTypo>>, <<FlavourOk>>, <<FlavourBoth, FlavourTypo>>}

\* A connection point owned by u1 with one named TCP port.
CpdOfU1 == [cpdId |-> CP1, vdu |-> <<U1>>,
            additionalServiceData |-> <<[portData |-> <<PortHttp>>]>>]

\* Payloads with the six required keys.  Images, containers and units vary
\* together under no or one connection point; connection points and units vary
\* together over fixed images and a few container lists; deployment flavours
\* vary beside at most one unit; one payload has no optional key at all.
FullPayloads ==
    {Payload({}, {}, i, c, u, p) :
        i \in ImageLists, c \in SeqsUpTo(ContainerRecs, MaxContainers),
        u \in SeqsUpTo(UnitRecs, MaxUnits), p \in {<<>>, <<CpdOfU1>>}}
    \cup {Payload({}, {}, <<Img1>>, c, u, p) :
        c \in SeqsUpTo({r \in ContainerRecs : r.osContainerDescId = "c1"}, 1),
        u \in SeqsUpTo(UnitRecs, MaxUnits), p \in CpdLists}
    \cup {[Payload({}, {}, <<Img1>>, <<>>, u, <<>>) EXCEPT !.deploymentFlavour = f] :
        u \in SeqsUpTo(UnitRecs, 1), f \in FlavourLists}
    \cup {Payload({}, OptionalKeys, <<>>, <<>>, <<>>, <<>>)}

\* Payloads that lack one required key, or all of them.
BrokenPayloads ==
    {Payload({k}, {}, i, <<>>, u, <<>>) :
        k \in RequiredKeys, i \in ImageLists, u \in SeqsUpTo(UnitRecs, 1)}
    \cup {Payload(RequiredKeys, OptionalKeys, <<>>, <<>>, <<>>, <<>>)}

PipeInit ==
    /\ mode = "pipeline"
    /\ stage = "input"
    /\ raw = <<>>
    /\ clean = <<>>
    /\ payload \in FullPayloads \cup BrokenPayloads
    /\ descriptor = <<>>
    /\ manifest = <<>>
    /\ sent = <<>>
    /\ TMInit

\* build_app_descriptor_from_repo_payload raises KeyError (lines 20-28).
ResolveFails ==
    /\ mode = "pipeline" /\ stage = "input"
    /\ RaisesKeyError(payload)
    /\ stage' = "resolve_error"
    /\ UNCHANGED <<mode, raw, clean, payload, descriptor, manifest, sent, tmVars>>

\* build_app_descriptor_from_repo_payload returns the descriptor.
Resolve ==
    /\ mode = "pipeline" /\ stage = "input"
    /\ ~RaisesKeyError(payload)
    /\ descriptor' = ResolvedDescriptor(payload)
    /\ payload' = PayloadAfter(payload)
    /\ stage' = "resolved"
    /\ UNCHANGED <<mode, raw, clean, manifest, sent, tmVars>>

\* build_camara_app_manifest returns the manifest.
Build ==
    /\ mode = "pipeline" /\ stage = "resolved"
    /\ manifest' = BuildManifest(descriptor)
    /\ stage' = "built"
    /\ UNCHANGED <<mode, raw, clean, payload, descriptor, sent, tmVars>>

PipeNext == ResolveFails \/ Resolve \/ Build

PipeSpec == PipeInit /\ [][PipeNext]_vars

\* ------------------------------------------------------------------------
\* map_camara_status_to_state (eaas_router.py)
\* ------------------------------------------------------------------------

\* Characters str.strip() removes.
Whitespace == {" ", "\t", "\n", "\r", "\f"}

\* str.strip(): drop the leading and the trailing whitespace.
Strip(text) ==
    LET keep == {i \in 1..Len(text) : text[i] \notin Whitespace}
    IN  IF keep = {} THEN <<>>
        ELSE LET lo == CHOOSE i \in keep : \A j \in keep : i <= j
                 hi == CHOOSE i \in keep : \A j \in keep : i >= j
             IN  SubSeq(text, lo, hi)

\* Line 437 without the strip.
NormalizeStatus_NoStrip(text) == StrUpper(text)

\* Line 437: s = str(raw_status).strip().upper()
NormalizeStatus(text) == StrUpper(Strip(text))

\* Line 440
INSTANTIATED_TOKENS ==
    {<<"I", "N", "S", "T", "A", "N", "T", "I", "A", "T", "E", "D">>,
     <<"R", "U", "N", "N", "I", "N", "G">>,
     <<"R", "E", "A", "D", "Y">>,
     <<"S", "T", "A", "R", "T", "E", "D">>,
     <<"A", "C", "T", "I", "V", "E">>}

\* Line 441
INSTANTIATING_TOKENS ==
    {<<"I", "N", "S", "T", "A", "N", "T", "I", "A", "T", "I", "N", "G">>,
     <<"C", "R", "E", "A", "T", "I", "N", "G">>,
     <<"P", "R", "O", "V", "I", "S", "I", "O", "N", "I", "N", "G">>,
     <<"D", "E", "P", "L", "O", "Y", "I", "N", "G">>,
     <<"S", "T", "A", "R", "T", "I", "N", "G">>,
     <<"P", "E", "N", "D", "I", "N", "G">>}

\* Line 442
NOT_INSTANTIATED_TOKENS ==
    {<<"N", "O", "T", "_", "I", "N", "S", "T", "A", "N", "T", "I", "A", "T", "E", "D">>,
     <<"T", "E", "R", "M", "I", "N", "A", "T", "E", "D">>,
     <<"S", "T", "O", "P", "P", "E", "D">>,
     <<"D", "E", "L", "E", "T", "E", "D">>,
     <<"R", "E", "M", "O", "V", "E", "D">>,
     <<"I", "N", "A", "C", "T", "I", "V", "E">>}

\* Line 443
FAILED_TOKENS ==
    {<<"F", "A", "I", "L", "E", "D">>,
     <<"E", "R", "R", "O", "R">>,
     <<"F", "A", "I", "L", "U", "R", "E">>}

\* The outcome of a call: the state returned, or nothing when it raised.
StatusRaises == Nothing

\* Lines 445-459 with the last line returning FAILED.
MapNormalized_DefaultFailed(s) ==
    IF s \in INSTANTIATED_TOKENS THEN Some("INSTANTIATED")
    ELSE IF s \in INSTANTIATING_TOKENS THEN Some("INSTANTIATING")
    ELSE IF s \in NOT_INSTANTIATED_TOKENS THEN Some("NOT_INSTANTIATED")
    ELSE Some("FAILED")

\* Lines 445-459: the four membership tests in order, then ValueError.
MapNormalized(s) ==
    IF s \in INSTANTIATED_TOKENS THEN Some("INSTANTIATED")
    ELSE IF s \in INSTANTIATING_TOKENS THEN Some("INSTANTIATING")
    ELSE IF s \in NOT_INSTANTIATED_TOKENS THEN Some("NOT_INSTANTIATED")
    ELSE IF s \in FAILED_TOKENS THEN Some("FAILED")
    ELSE StatusRaises

\* Lines 433-459; raw_status is Nothing (None) or Some(string).
map_camara_status_to_state(raw_status) ==
    IF raw_status = Nothing THEN StatusRaises
    ELSE MapNormalized(NormalizeStatus(raw_status[1]))

\* ------------------------------------------------------------------------
\* map_camara_status_to_state applied to bounded status strings
\* ------------------------------------------------------------------------

StatusTokens ==
    INSTANTIATED_TOKENS \cup INSTANTIATING_TOKENS
        \cup NOT_INSTANTIATED_TOKENS \cup FAILED_TOKENS

\* str.lower() on one character
LowerChar(c) ==
    IF c \in Upper THEN LowerSeq[CHOOSE i \in 1..26 : UpperSeq[i] = c] ELSE c

\* A word in upper case, in lower case, capitalised, or alternating.
CasePatterns == {"upper", "lower", "title", "mixed"}
Cased(word, pat) ==
    [i \in 1..Len(word) |->
        IF pat = "upper" \/ (pat = "title" /\ i = 1) \/ (pat = "mixed" /\ i % 2 = 0)
        THEN UpperChar(word[i]) ELSE LowerChar(word[i])]

\* Whitespace put before and after a word.
PadChars == {" ", "\t", "\n"}
Pads == SeqsUpTo(PadChars, MaxPad)

\* Words that are in none of the four sets: the empty string, an unknown word,
\* a prefix and an extension of a token, a token broken by a blank, a token
\* behind an underscore, and a token with its underscore replaced.
UnknownWords ==
    {<<>>,
     <<"B", "O", "G", "U", "S">>,
     <<"R", "U", "N">>,
     <<"F", "A", "I", "L", "E", "D", "!">>,
     <<"R", "E", "A", " ", "D", "Y">>,
     <<"_", "A", "C", "T", "I", "V", "E">>,
     <<"N", "O", "T", " ", "I", "N", "S", "T", "A", "N", "T", "I", "A", "T", "E", "D">>}

\* raw_status as read from the CAMARA response: None or a string.
StatusInputs ==
    {Nothing} \cup
    {Some(l \o Cased(w, p) \o r) :
        l \in Pads, r \in Pads, p \in CasePatterns,
        w \in StatusTokens \cup UnknownWords}

StatusInit ==
    /\ mode = "status"
    /\ stage = "input"
    /\ raw \in StatusInputs
    /\ clean = <<>>
    /\ payload = <<>>
    /\ descriptor = <<>>
    /\ manifest = <<>>
    /\ sent = <<>>
    /\ TMInit

\* map_camara_status_to_state returns a state.
MapStatus ==
    /\ mode = "status" /\ stage = "input"
    /\ map_camara_status_to_state(raw) # StatusRaises
    /\ clean' = map_camara_status_to_state(raw)
    /\ stage' = "mapped"
    /\ UNCHANGED <<mode, raw, payload, descriptor, manifest, sent, tmVars>>

\* map_camara_status_to_state raises ValueError (lines 435, 459).
MapStatusFails ==
    /\ mode = "status" /\ stage = "input"
    /\ map_camara_status_to_state(raw) = StatusRaises
    /\ stage' = "status_error"
    /\ UNCHANGED <<mode, raw, clean, payload, descriptor, manifest, sent, tmVars>>

StatusNext == MapStatus \/ MapStatusFails

StatusSpec == StatusInit /\ [][StatusNext]_vars

\* ------------------------------------------------------------------------
\* get_instance_id_state_ws (eaas_router.py, lines 482-593)
\* ------------------------------------------------------------------------

\* Identifiers handed to the endpoints: a UUID, a UUID between blanks and
\* double quotes, and a string that is no UUID.
InstanceIds == {"uuid", "quoted_uuid", "not_a_uuid"}

\* Line 494: UUID(instance_id.strip().strip('"')) raises ValueError or not.
StateIdIsUuid(instance_id) == instance_id \in {"uuid", "quoted_uuid"}

\* A ProblemDetails body sent with its status as the HTTP status code.
ProblemResponse(status, title) ==
    [code |-> status, state |-> Nothing, title |-> Some(title)]

\* Lines 552-573 classifying the last record of the array.
ClassifyDeployment_LastRecord(records) ==
    LET deployment == records[Len(records)]
    IN  IF deployment.kind # "dict"
        THEN ProblemResponse(500, "Internal Server Error")
        ELSE LET mapped_state == map_camara_status_to_state(deployment.status)
             IN  IF mapped_state = StatusRaises
                 THEN ProblemResponse(502, "Bad Gateway")
                 ELSE [code |-> 200, state |-> mapped_state, title |-> Nothing]

\* Lines 552-573: payload[0].get("status") is mapped; a ValueError of the
\* mapper becomes a 502 problem.  A first element without get() raises
\* AttributeError, which line 585 turns into a 500 problem.
ClassifyDeployment(records) ==
    LET deployment == records[1]
    IN  IF deployment.kind # "dict"
        THEN ProblemResponse(500, "Internal Server Error")
        ELSE LET mapped_state == map_camara_status_to_state(deployment.status)
             IN  IF mapped_state = StatusRaises
                 THEN ProblemResponse(502, "Bad Gateway")
                 ELSE [code |-> 200, state |-> mapped_state, title |-> Nothing]

\* Lines 512-518: the request made to CAMARA.
StateRequest(instance_id, x_correlator) ==
    [method |-> "GET", url |-> "/appinstances", id |-> "uuid",
     correlator |-> x_correlator]

\* Lines 492-593: the response for a request and the answer CAMARA gives.
get_instance_id_state_ws(instance_id, answer) ==
    IF ~StateIdIsUuid(instance_id) THEN ProblemResponse(422, "Invalid UUID")
    ELSE IF answer.kind = "timeout" THEN ProblemResponse(503, "Service Unavailable")
    ELSE IF answer.kind = "error" THEN ProblemResponse(500, "Internal Server Error")
    ELSE IF answer.status # 200
         THEN ProblemResponse(answer.status,
                              IF 400 <= answer.status /\ answer.status < 500
                              THEN "Client error" ELSE "Server error")
    ELSE IF answer.body = "invalid_json"
         THEN ProblemResponse(500, "Internal Server Error")
    ELSE IF answer.body = "object" THEN ProblemResponse(502, "Bad Gateway")
    ELSE IF answer.records = <<>> THEN ProblemResponse(404, "Not Found")
    ELSE ClassifyDeployment(answer.records)

\* Status strings of a CAMARA record.
RecordStatuses ==
    {<<" ", "r", "u", "n", "n", "i", "n", "g", " ">>,
     <<"F", "A", "I", "L", "E", "D">>,
     <<"b", "o", "g", "u", "s">>,
     <<>>}

\* Elements of CAMARA's array: records with and without status, and an
\* element that is no JSON object.
DeploymentRecords ==
    {[kind |-> "dict", status |-> Nothing]}
    \cup {[kind |-> "dict", status |-> Some(st)] : st \in RecordStatuses}
    \cup {[kind |-> "scalar", status |-> Nothing]}

\* What the CAMARA client does with the GET: raises a timeout or another
\* error, answers with a status other than 200, or answers 200 with a body
\* that is no JSON, a JSON object, or a JSON array.
CamaraStateAnswers ==
    {[kind |-> k, status |-> 0, body |-> "none", records |-> <<>>] :
        k \in {"timeout", "error"}}
    \cup {[kind |-> "response", status |-> st, body |-> "none", records |-> <<>>] :
        st \in {404, 500}}
    \cup {[kind |-> "response", status |-> 200, body |-> b, records |-> <<>>] :
        b \in {"invalid_json", "object"}}
    \cup {[kind |-> "response", status |-> 200, body |-> "array", records |-> r] :
        r \in SeqsUpTo(DeploymentRecords, MaxRecords)}

StateInit ==
    /\ mode = "state"
    /\ stage = "input"
    /\ raw \in [instance_id : InstanceIds, x_correlator : {Nothing, Some("x1")},
                answer : CamaraStateAnswers]
    /\ clean = <<>>
    /\ payload = <<>>
    /\ descriptor = <<>>
    /\ manifest = <<>>
    /\ sent = <<>>
    /\ TMInit

\* The endpoint rejects the identifier without calling CAMARA (lines 493-505).
StateRejectsId ==
    /\ mode = "state" /\ stage = "input"
    /\ ~StateIdIsUuid(raw.instance_id)
    /\ clean' = get_instance_id_state_ws(raw.instance_id, raw.answer)
    /\ stage' = "answered"
    /\ UNCHANGED <<mode, raw, payload, descriptor, manifest, sent, tmVars>>

\* The endpoint calls CAMARA and answers (lines 507-593).
StateAnswers ==
    /\ mode = "state" /\ stage = "input"
    /\ StateIdIsUuid(raw.instance_id)
    /\ sent' = <<StateRequest(raw.instance_id, raw.x_correlator)>>
    /\ clean' = get_instance_id_state_ws(raw.instance_id, raw.answer)
    /\ stage' = "answered"
    /\ UNCHANGED <<mode, raw, payload, descriptor, manifest, tmVars>>

StateNext == StateRejectsId \/ StateAnswers

StateSpec == StateInit /\ [][StateNext]_vars

\* ------------------------------------------------------------------------
\* post_application_onboarding (eaas_router.py, lines 80-210) and
\* post_stop_application_instance (lines 372-418)
\* ------------------------------------------------------------------------

\* An exception raised in a handler: its class and, for an HTTPException, its
\* status code.
Raised(exc, status) == [exc |-> exc, status |-> status]
NoException == Raised("none", 0)

\* Lines 205-210 and 414-418: what leaves the handler when the try block
\* raised.  HTTPException is an Exception and no ValidationError, so one
\* raised inside the block is replaced by a new one with status 500.
OuterExcept(raised) ==
    IF raised.exc = "ValidationError" THEN Raised("HTTPException", 422)
    ELSE Raised("HTTPException", 500)

\* Whether a pydantic model accepts the values it is built from.
ModelVerdicts == {"accepted", "rejected"}

\* What a client call does: raises httpx.RequestError or returns a response.
ClientAnswers(statuses) ==
    {[kind |-> "connect_error", status |-> 0]}
    \cup {[kind |-> "response", status |-> st] : st \in statuses}

\* Lines 107-127: the client raised, or raise_for_status() did.
RepoRaises(answer) ==
    IF answer.kind = "connect_error" THEN Raised("HTTPException", 502)
    ELSE IF answer.status < 200 \/ answer.status > 299 THEN Raised("HTTPException", 502)
    ELSE NoException

\* Lines 132-166: the JSON body of the repository is resolved into an
\* AppDescriptor and the AppManifest is built from it.
TranslationRaises(req) ==
    IF RaisesKeyError(req.body) THEN Raised("KeyError", 0)
    ELSE IF req.descriptorModel = "rejected" THEN Raised("ValidationError", 0)
    ELSE IF req.manifestModel = "rejected" THEN Raised("ValidationError", 0)
    ELSE NoException

\* Lines 177-203: the POST raised, was answered 201, or was answered otherwise.
SubmitRaises(answer) ==
    IF answer.kind = "connect_error" THEN Raised("RequestError", 0)
    ELSE IF answer.status # 201 THEN Raised("HTTPException", 500)
    ELSE NoException

\* Lines 108-110
DescriptorRequest(req) ==
    [service |-> "app_repo", method |-> "GET", url |-> "/app_packages/id/app_descriptor",
     json |-> <<>>, correlator |-> Nothing]

\* Lines 173-180
ManifestRequest(req) ==
    [service |-> "camara", method |-> "POST", url |-> "/apps/",
     json |-> BuildManifest(ResolvedDescriptor(req.body)),
     correlator |-> req.x_correlator]

\* The manifest is submitted whatever the earlier steps did.
OnboardingRequests_SubmitsAlways(req) ==
    <<DescriptorRequest(req), ManifestRequest(req)>>

\* The requests one call of post_application_onboarding sends, in order.
OnboardingRequests(req) ==
    IF RepoRaises(req.repo) # NoException \/ TranslationRaises(req) # NoException
    THEN <<DescriptorRequest(req)>>
    ELSE <<DescriptorRequest(req), ManifestRequest(req)>>

\* The exception raised inside the try block of lines 91-203, if any.
OnboardingRaises(req) ==
    IF RepoRaises(req.repo) # NoException THEN RepoRaises(req.repo)
    ELSE IF TranslationRaises(req) # NoException THEN TranslationRaises(req)
    ELSE SubmitRaises(req.camara)

\* The status of the answer of post_application_onboarding.
post_application_onboarding(req) ==
    IF OnboardingRaises(req) = NoException THEN 201
    ELSE OuterExcept(OnboardingRaises(req)).status

\* Descriptor payloads the repository answers with.
OnboardPayloads ==
    BrokenPayloads
    \cup {Payload({}, {}, <<Img1>>, c, u, <<CpdOfU1>>) :
            c \in SeqsUpTo({r \in ContainerRecs : r.osContainerDescId = "c1"}, 1),
            u \in SeqsUpTo(UnitRecs, 1)}

OnboardInit ==
    /\ mode = "onboard"
    /\ stage = "input"
    /\ raw \in [repo : ClientAnswers({200, 404, 500}), body : OnboardPayloads,
                descriptorModel : ModelVerdicts, manifestModel : ModelVerdicts,
                camara : ClientAnswers({201, 409}),
                x_correlator : {Nothing, Some("x1")}]
    /\ clean = <<>>
    /\ payload = <<>>
    /\ descriptor = <<>>
    /\ manifest = <<>>
    /\ sent = <<>>
    /\ TMInit

\* One call of post_application_onboarding.
Onboard ==
    /\ mode = "onboard" /\ stage = "input"
    /\ sent' = OnboardingRequests(raw)
    /\ clean' = [code |-> post_application_onboarding(raw)]
    /\ stage' = "answered"
    /\ UNCHANGED <<mode, raw, payload, descriptor, manifest, tmVars>>

\* Line 383: UUID(body.appInstanceId), with no stripping.
StopIdIsUuid(instance_id) == instance_id = "uuid"

\* The exception raised inside the try block of lines 380-412, if any.
StopRaises(req) ==
    IF ~StopIdIsUuid(req.appInstanceId) THEN Raised("HTTPException", 422)
    ELSE IF req.camara.kind = "connect_error" THEN Raised("RequestError", 0)
    ELSE IF req.camara.status # 202 THEN Raised("HTTPException", 500)
    ELSE NoException

\* The requests one call of post_stop_application_instance sends.
StopRequests(req) ==
    IF ~StopIdIsUuid(req.appInstanceId) THEN <<>>
    ELSE <<[service |-> "camara", method |-> "DELETE", url |-> "/appinstances/uuid",
            json |-> <<>>, correlator |-> req.x_correlator]>>

\* The status of the answer of post_stop_application_instance.
post_stop_application_instance(req) ==
    IF StopRaises(req) = NoException THEN 200
    ELSE OuterExcept(StopRaises(req)).status

StopInit ==
    /\ mode = "stop"
    /\ stage = "input"
    /\ raw \in [appInstanceId : InstanceIds, camara : ClientAnswers({202, 404, 500}),
                x_correlator : {Nothing, Some("x1")}]
    /\ clean = <<>>
    /\ payload = <<>>
    /\ descriptor = <<>>
    /\ manifest = <<>>
    /\ sent = <<>>
    /\ TMInit

\* One call of post_stop_application_instance.
Stop ==
    /\ mode = "stop" /\ stage = "input"
    /\ sent' = StopRequests(raw)
    /\ clean' = [code |-> post_stop_application_instance(raw)]
    /\ stage' = "answered"
    /\ UNCHANGED <<mode, raw, payload, descriptor, manifest, tmVars>>

\* The hosting application serves one call of one of its two POST endpoints.
EndpointInit == OnboardInit \/ StopInit

EndpointNext == Onboard \/ Stop

EndpointSpec == EndpointInit /\ [][EndpointNext]_vars

\* ------------------------------------------------------------------------
\* Properties of the token cache
\* ------------------------------------------------------------------------

InLock == {"v2", "ret2", "post", "w_tok", "w_exp", "ret3"}
InRefresh == {"post", "w_tok", "w_exp"}

\* C1: single-flight refresh.  Callers that find the cache Empty share one
\* token-endpoint exchange: a further POST is sent only after a call has failed
\* or when the clock has reached the cached token's expiry minus the skew
\* (which is at once when its lifetime does not exceed the skew).  Every
\* caller that has returned got a token, and while there has been one
\* exchange it is the token of that exchange.
C1_SingleFlight ==
    /\ [](\A t \in Threads : pc[t] = "done" => (ret[t] # None /\ posts >= 1))
    /\ []((posts = 1 /\ ~failed) =>
            \A t \in Threads : pc[t] = "done" => ret[t] = 1)
    /\ [][(posts' > posts /\ posts >= 1) =>
            (failed \/ (access_token # None /\ tokExp # -1
                        /\ now >= tokExp - refresh_skew_seconds))]_vars

\* Two callers found the cache Empty; one refreshed, the other waited for the
\* lock, re-checked and returned the cached token: one POST in all.
C1_Witness ==
    \E t1, t2 \in Threads :
        /\ t1 # t2
        /\ pc[t1] = "done" /\ path[t1] = "refresh"
        /\ pc[t2] = "done" /\ path[t2] = "recheck"
        /\ ret[t1] = 1 /\ ret[t2] = 1
        /\ posts = 1 /\ ~failed /\ calls = 2

\* C2: a caller that is about to return a token (line 47, 51 or 54) returns one
\* whose stored expiry is at least the clock value its call last read plus the
\* skew.
C2_ReturnedTokenOutlivesSkew ==
    \A t \in Threads :
        (pc[t] \in {"ret1", "ret2", "ret3"} /\ tokExp # -1) =>
            tokExp >= chk[t].at + refresh_skew_seconds

\* C3: the cache window.  A call is answered from the cache only when the
\* clock value it read is before the expiry it read minus the skew, and a
\* call enters _refresh only when there is no token or the clock value it read
\* under the lock has reached the cached expiry minus the skew.
C3_CacheWindow ==
    \A t \in Threads :
        /\ pc[t] \in {"ret1", "ret2"} =>
              (chk[t].tok # None /\ chk[t].at < chk[t].exp - refresh_skew_seconds)
        /\ pc[t] = "ret2" =>
              (tokExp = chk[t].exp /\ access_token = chk[t].tok)
        /\ pc[t] = "post" =>
              (access_token = None
               \/ chk[t].at >= expires_at - refresh_skew_seconds)

\* With expires_in = 60 and skew = 30 stored at time 0: a call at 15 is about
\* to return the cached token while the other thread, whose call read the clock
\* at 30, is not served from the cache again.
C3_Witness ==
    \E t1, t2 \in Threads :
        /\ tokExp = DefaultExpiresIn
        /\ refresh_skew_seconds = 30
        /\ pc[t1] = "done" /\ path[t1] = "fast" /\ ret[t1] = 1
        /\ pc[t2] = "post" /\ chk[t2].tok = 1
        /\ chk[t2].at = tokExp - refresh_skew_seconds
        /\ posts = 1

\* C4: the cache is written under the lock.  Every thread inside the with block,
\* so every thread in _refresh, is the lock holder (there is at most one), and
\* each change of _access_token or _expires_at is a step of the holder.
C4_WritesUnderLock ==
    /\ [](\A t \in Threads : pc[t] \in InLock => lock = t)
    /\ [][(access_token' # access_token \/ expires_at' # expires_at) =>
            (lock # NoThread /\ pc[lock] \in {"w_tok", "w_exp"}
             /\ \A u \in Threads \ {lock} : pc[u] \notin InLock)]_vars

\* One thread stores the expiry while another waits for the lock.
C4_Witness ==
    \E t1, t2 \in Threads :
        /\ pc[t1] = "ret3" /\ lock = t1
        /\ pc[t2] = "acquire"
        /\ access_token # None /\ expires_at > 0

\* C5: a call whose exchange was answered with a status other than 200, or
\* with a 200 whose access_token is missing or empty, has raised and returned
\* no token.
C5_RejectedExchangeRaises ==
    \A t \in Threads :
        (resp[t] # NoResp
         /\ (resp[t].status # 200 \/ resp[t].token \in {"missing", "empty"})) =>
            (pc[t] = "raised" /\ path[t] = "raise" /\ ret[t] = None
             /\ lock # t)

\* One call raised on a 401, another on a 200 without access_token.
C5_Witness ==
    \E t1, t2 \in Threads :
        /\ pc[t1] = "raised" /\ resp[t1].status = 401
        /\ pc[t2] = "raised" /\ resp[t2].status = 200
        /\ resp[t2].token = "missing"

\* ------------------------------------------------------------------------
\* Properties of the sanitizers and of the pipeline
\* ------------------------------------------------------------------------

\* s is a letter followed by word characters, minLen..maxLen characters in all.
InGrammar(s, minLen, maxLen) ==
    /\ Len(s) >= minLen
    /\ Len(s) <= maxLen
    /\ s[1] \in Letters
    /\ \A i \in 1..Len(s) : s[i] \in Letters \cup Digits \cup {"_"}

\* C6: whatever the input string, the string a sanitizer returns matches its
\* grammar: app and component names 2..64 characters, provider names 8..64,
\* interface identifiers 4..32.
C6_SanitizedMatchesGrammar ==
    /\ stage \in {"app_name", "component_name"} => InGrammar(clean, 2, 64)
    /\ stage = "app_provider" => InGrammar(clean, 8, 64)
    /\ stage = "interface_id" => InGrammar(clean, 4, 32)

\* An interface identifier made from more than 32 characters that are all
\* outside [A-Za-z0-9_].
C6_Witness ==
    /\ stage = "interface_id"
    /\ Len(raw) > 32
    /\ \A i \in 1..Len(raw) : raw[i] \notin WordChars
    /\ Len(clean) = 32

\* C7: a payload with the six required fields is resolved and built without
\* error, whatever its optional collections hold, and the manifest built has
\* at least one component.
C7_ComponentSpecNonEmpty ==
    /\ stage = "resolve_error" => payload.missing # {}
    /\ stage \in {"resolved", "built"} => payload.missing = {}
    /\ stage = "built" => Len(manifest.componentSpec) >= 1

\* A manifest built from units with a dangling container identifier and no
\* connection point at all: its only component is the fallback one.
C7_Witness ==
    /\ stage = "built"
    /\ payload.virtualCpd = <<>>
    /\ Len(payload.vdu) = 2
    /\ \E i \in 1..2 : \E j \in 1..Len(payload.vdu[i].osContainerDesc) :
          payload.vdu[i].osContainerDesc[j] = "cX"
    /\ Len(manifest.componentSpec) = 1
    /\ manifest.componentSpec[1].networkInterfaces = <<>>

\* The policy of the claim: the limit when present and positive, else the
\* request, else nothing.
LimitFirst(limit, request) ==
    IF limit # <<>> /\ limit[1] > 0 THEN limit[1]
    ELSE IF request # <<>> THEN request[1] ELSE 0

RECURSIVE LimitFirstSum(_)
LimitFirstSum(ocs) ==
    IF ocs = <<>> THEN <<0, 0>>
    ELSE LET rest == LimitFirstSum(Tail(ocs))
             oc == Head(ocs)
         IN  <<LimitFirst(oc.cpuResourceLimit, oc.requestedCpuResources) + rest[1],
               LimitFirst(oc.memoryResourceLimit, oc.requestedMemoryResource)
                   + rest[2]>>

RECURSIVE AllContainers(_)
AllContainers(vdus) ==
    IF vdus = <<>> THEN <<>>
    ELSE Head(vdus).osContainerDesc \o AllContainers(Tail(vdus))

\* C8: numCPU and memory are the floored sums, over every container of every
\* unit, of the limit when it is present and positive and of the request
\* otherwise.
C8_LimitPreferred ==
    stage = "built" =>
        LET sums == LimitFirstSum(AllContainers(descriptor.vdu))
        IN  /\ manifest.numCPU = (IF sums[1] <= 0 THEN 1 ELSE sums[1])
            /\ manifest.memory = (IF sums[2] <= 0 THEN 1024 ELSE sums[2])

\* C9: a CPU sum that is zero or negative gives numCPU = 1, a memory sum that
\* is zero or negative gives memory = 1024, each on its own; a positive sum is
\* used as it is; so both are at least 1.
C9_Floors ==
    /\ stage = "built" =>
        LET sums == SumUnits(descriptor.vdu, <<0, 0>>)
        IN  /\ sums[1] <= 0 => manifest.numCPU = 1
            /\ sums[1] > 0 => manifest.numCPU = sums[1]
            /\ sums[2] <= 0 => manifest.memory = 1024
            /\ sums[2] > 0 => manifest.memory = sums[2]
            /\ manifest.numCPU >= 1
            /\ manifest.memory >= 1

\* The CPU sum is zero and floored while the memory sum is positive and kept.
C9_Witness ==
    /\ stage = "built"
    /\ SumUnits(descriptor.vdu, <<0, 0>>)[1] = 0
    /\ AllContainers(descriptor.vdu) # <<>>
    /\ manifest.numCPU = 1
    /\ manifest.memory = SumUnits(descriptor.vdu, <<0, 0>>)[2]
    /\ manifest.memory = 768

Perms(n) == {f \in [1..n -> 1..n] : \A i, j \in 1..n : f[i] = f[j] => i = j}
Permuted(seq, f) == [i \in 1..Len(seq) |-> seq[f[i]]]

\* C10: the aggregated numCPU and memory of the manifest are those of every
\* permutation of the unit list, also with the containers of a unit permuted.
C10_OrderIndependent ==
    stage = "built" =>
        \A f \in Perms(Len(descriptor.vdu)) :
            LET units == Permuted(descriptor.vdu, f)
            IN  /\ AggregateResources(units) = <<manifest.numCPU, manifest.memory>>
                /\ \A u \in 1..Len(units) :
                     \A g \in Perms(Len(units[u].osContainerDesc)) :
                        AggregateResources(
                            [units EXCEPT ![u].osContainerDesc =
                                Permuted(units[u].osContainerDesc, g)])
                        = <<manifest.numCPU, manifest.memory>>

\* Two different units, one of them with several containers that add
\* different figures.
C10_Witness ==
    /\ stage = "built"
    /\ Len(descriptor.vdu) = 2
    /\ descriptor.vdu[1].osContainerDesc # descriptor.vdu[2].osContainerDesc
    /\ \E u \in 1..2 :
          /\ Len(descriptor.vdu[u].osContainerDesc) >= 2
          /\ CpuOf(descriptor.vdu[u].osContainerDesc[1])
               # CpuOf(descriptor.vdu[u].osContainerDesc[2])
    /\ manifest.numCPU > 1

\* ------------------------------------------------------------------------
\* Properties of the status mapper
\* ------------------------------------------------------------------------

\* s is word in some mixture of upper and lower case, between two runs of
\* whitespace.
IsPaddedVariant(s, word) ==
    \E i \in 0..Len(s) :
        /\ i + Len(word) <= Len(s)
        /\ \A k \in 1..i : s[k] \in Whitespace
        /\ \A k \in 1..Len(word) :
              s[i + k] = word[k] \/ s[i + k] = LowerChar(word[k])
        /\ \A k \in (i + Len(word) + 1)..Len(s) : s[k] \in Whitespace

\* The four states with the tokens the claim assigns to each.
StateSets ==
    {<<"INSTANTIATED", INSTANTIATED_TOKENS>>,
     <<"INSTANTIATING", INSTANTIATING_TOKENS>>,
     <<"NOT_INSTANTIATED", NOT_INSTANTIATED_TOKENS>>,
     <<"FAILED", FAILED_TOKENS>>}

\* C11: for any upper/lower-case variant of a recognized token with any
\* surrounding whitespace, map_camara_status_to_state returns the state of
\* the set the token belongs to.
C11_RecognizedTokensMapped ==
    (mode = "status" /\ stage # "input" /\ raw # Nothing) =>
        \A ss \in StateSets : \A word \in ss[2] :
            IsPaddedVariant(raw[1], word) =>
                (stage = "mapped" /\ clean = Some(ss[1]))

\* " running " is mapped to INSTANTIATED.
C11_Witness ==
    /\ stage = "mapped"
    /\ raw = Some(<<" ", "r", "u", "n", "n", "i", "n", "g", " ">>)
    /\ clean = Some("INSTANTIATED")

\* C12: when the status is absent or is, once trimmed and upper-cased, in
\* none of the four token sets, map_camara_status_to_state raises and returns
\* no state.
C12_UnrecognizedRaises ==
    (mode = "status" /\ stage # "input") =>
        ((raw = Nothing \/ \A word \in StatusTokens : ~IsPaddedVariant(raw[1], word))
            => (stage = "status_error" /\ clean = Nothing))

\* "bogus" raises.
C12_Witness ==
    /\ stage = "status_error"
    /\ raw = Some(<<"b", "o", "g", "u", "s">>)
    /\ clean = Nothing

\* ------------------------------------------------------------------------
\* Properties of the descriptor resolver
\* ------------------------------------------------------------------------

\* C13: build_app_descriptor_from_repo_payload fails and produces no
\* descriptor whenever one of the six required top-level fields is absent
\* from the payload, whatever the other fields contain.
C13_MissingRequiredKeyFails ==
    \A k \in {"appDescriptorId", "appDescriptorExtInvariantId", "appProvider",
              "appProductName", "appSoftwareVersion", "appDescriptorVersion"} :
        (mode = "pipeline" /\ stage # "input" /\ k \in payload.missing) =>
            (stage = "resolve_error" /\ descriptor = <<>> /\ manifest = <<>>)

\* The field read last is the one absent, beside images and a unit.
C13_Witness ==
    /\ stage = "resolve_error"
    /\ payload.missing = {"appDescriptorVersion"}
    /\ payload.swImageDesc # <<>>
    /\ payload.vdu # <<>>
    /\ descriptor = <<>>

\* The image a raw container refers to, as an optional object of the image
\* collection.
ImageFor(oc, images) ==
    IF oc.swImageDesc # <<>> /\ \E j \in 1..Len(images) : images[j].id = oc.swImageDesc[1]
    THEN {Some(images[j]) : j \in {n \in 1..Len(images) : images[n].id = oc.swImageDesc[1]}}
    ELSE {Nothing}

\* The resolved container r is the raw container oc with its image looked up.
IsResolutionOf(r, oc, images) ==
    /\ r.osContainerDescId = oc.osContainerDescId
    /\ r.requestedCpuResources = oc.requestedCpuResources
    /\ r.cpuResourceLimit = oc.cpuResourceLimit
    /\ r.requestedMemoryResource = oc.requestedMemoryResource
    /\ r.memoryResourceLimit = oc.memoryResourceLimit
    /\ r.swImageDesc \in ImageFor(oc, images)

\* C14: every resolved unit's container list is the sequence of containers
\* looked up for those identifiers of the unit's list that exist in the
\* container collection, in their original order, each carrying its own
\* resolved image; unknown identifiers contribute nothing.
C14_UnitContainersResolved ==
    (mode = "pipeline" /\ stage \in {"resolved", "built"}) =>
        LET images == GetList(payload, "swImageDesc")
            containers == GetList(payload, "osContainerDesc")
            units == GetList(payload, "vdu")
            known == {containers[j].osContainerDescId : j \in 1..Len(containers)}
        IN  /\ Len(descriptor.vdu) = Len(units)
            /\ \A u \in 1..Len(units) :
                  LET kept == SelectSeq(units[u].osContainerDesc,
                                        LAMBDA id : id \in known)
                      got == descriptor.vdu[u].osContainerDesc
                  IN  /\ descriptor.vdu[u].vduId = units[u].vduId
                      /\ Len(got) = Len(kept)
                      /\ \A i \in 1..Len(kept) :
                            \E j \in 1..Len(containers) :
                                /\ containers[j].osContainerDescId = kept[i]
                                /\ IsResolutionOf(got[i], containers[j], images)

\* A unit listing an unknown identifier and two known ones, resolved to the
\* two containers in their order, the second with its image.
C14_Witness ==
    /\ stage = "resolved"
    /\ \E u \in 1..Len(descriptor.vdu) :
          /\ payload.vdu[u].osContainerDesc = <<"cX", "c3", "c1">>
          /\ Len(descriptor.vdu[u].osContainerDesc) = 2
          /\ descriptor.vdu[u].osContainerDesc[1].osContainerDescId = "c3"
          /\ descriptor.vdu[u].osContainerDesc[2].osContainerDescId = "c1"
          /\ descriptor.vdu[u].osContainerDesc[2].swImageDesc = Some(Img1)

\* C15: build_app_descriptor_from_repo_payload has no side effects: after the
\* call, successful or failed, the payload mapping and every nested record in
\* it, each deploymentFlavour entry included, is unchanged.
C15_PayloadUnchanged == [][payload' = payload]_vars

\* The raw container names an image identifier the image collection lacks.
IsDangling(oc, images) ==
    /\ oc.swImageDesc # Nothing
    /\ \A j \in 1..Len(images) : images[j].id # oc.swImageDesc[1]

HasDanglingImage ==
    \E j \in 1..Len(GetList(payload, "osContainerDesc")) :
        IsDangling(GetList(payload, "osContainerDesc")[j],
                   GetList(payload, "swImageDesc"))

\* Every resolved container whose identifier belongs to dangling raw
\* containers only has no image.
DanglingLeftUnset ==
    LET containers == GetList(payload, "osContainerDesc")
        images == GetList(payload, "swImageDesc")
    IN  \A u \in 1..Len(descriptor.vdu) :
            \A i \in 1..Len(descriptor.vdu[u].osContainerDesc) :
                LET r == descriptor.vdu[u].osContainerDesc[i]
                IN  (\A j \in 1..Len(containers) :
                        containers[j].osContainerDescId = r.osContainerDescId
                            => IsDangling(containers[j], images))
                    => r.swImageDesc = Nothing

PlaceholderImage ==
    [name |-> <<"a", "p", "p">>, version |-> <<"l", "a", "t", "e", "s", "t">>]

\* C16 as stated: a payload in which a container references an image
\* identifier that is not in the image collection resolves with that
\* container's image unset, and the manifest built from it has the
\* placeholder image reference as its imagePath.
C16_DanglingImagePlaceholder ==
    (mode = "pipeline" /\ stage # "input" /\ HasDanglingImage) =>
        /\ stage \in {"resolved", "built"}
        /\ DanglingLeftUnset
        /\ stage = "built" => manifest.imagePath = PlaceholderImage

\* C16 amended: such a payload resolves with that container's image unset and
\* the build succeeds; its imagePath is the placeholder image reference when
\* the image collection is absent or empty.
C16_DanglingImageAmended ==
    (mode = "pipeline" /\ stage # "input" /\ HasDanglingImage) =>
        /\ stage \in {"resolved", "built"}
        /\ DanglingLeftUnset
        /\ (stage = "built" /\ GetList(payload, "swImageDesc") = <<>>)
              => manifest.imagePath = PlaceholderImage

\* A unit's only container refers to imgX, there is no image at all, and the
\* manifest is built with the placeholder.
C16_Witness ==
    /\ stage = "built"
    /\ payload.swImageDesc = <<>>
    /\ \E u \in 1..Len(descriptor.vdu) :
          /\ Len(descriptor.vdu[u].osContainerDesc) = 1
          /\ descriptor.vdu[u].osContainerDesc[1].osContainerDescId = "c1"
          /\ descriptor.vdu[u].osContainerDesc[1].swImageDesc = Nothing
    /\ \E j \in 1..Len(payload.osContainerDesc) :
          payload.osContainerDesc[j].swImageDesc = Some("imgX")
    /\ manifest.imagePath = PlaceholderImage

\* C17: every identifier reference of the payload (container to image, unit to
\* container) is either replaced by the referenced object or reported as
\* unresolved.  The call hands back the descriptor or raises and has no other
\* channel, so a reference is accounted for only when the call raised or the
\* resolved tree holds the object under that identifier.
C17_NoSilentDrop ==
    (mode = "pipeline" /\ stage \in {"resolved", "built"}) =>
        LET units == GetList(payload, "vdu")
            containers == GetList(payload, "osContainerDesc")
        IN  \A u \in 1..Len(units) :
                /\ \A k \in 1..Len(units[u].osContainerDesc) :
                      \E i \in 1..Len(descriptor.vdu[u].osContainerDesc) :
                          descriptor.vdu[u].osContainerDesc[i].osContainerDescId
                              = units[u].osContainerDesc[k]
                /\ \A i \in 1..Len(descriptor.vdu[u].osContainerDesc) :
                      LET r == descriptor.vdu[u].osContainerDesc[i]
                      IN  \E j \in 1..Len(containers) :
                            /\ containers[j].osContainerDescId = r.osContainerDescId
                            /\ containers[j].swImageDesc # Nothing
                                  => /\ r.swImageDesc # Nothing
                                     /\ r.swImageDesc[1].id = containers[j].swImageDesc[1]

\* ------------------------------------------------------------------------
\* Properties of the manifest's components
\* ------------------------------------------------------------------------

\* The ports of the port bindings of a connection point, in binding order.
RECURSIVE BindingPorts(_)
BindingPorts(asds) ==
    IF asds = <<>> THEN <<>>
    ELSE [i \in 1..Len(Head(asds).portData) |-> Head(asds).portData[i].port]
         \o BindingPorts(Tail(asds))

\* One port per pair (connection point that lists the unit, port binding of
\* it), in connection-point order then binding order.
RECURSIVE ExpectedPorts(_, _)
ExpectedPorts(vdu_id, cpds) ==
    IF cpds = <<>> THEN <<>>
    ELSE (IF \E k \in 1..Len(Head(cpds).vdu) : Head(cpds).vdu[k] = vdu_id
          THEN BindingPorts(Head(cpds).additionalServiceData) ELSE <<>>)
         \o ExpectedPorts(vdu_id, Tail(cpds))

\* The units some connection point with a port binding lists.
UnitsWithPorts ==
    SelectSeq(descriptor.vdu,
              LAMBDA v : ExpectedPorts(v.vduId, descriptor.virtualCpd) # <<>>)

\* C18: for every unit that appears in the manifest, networkInterfaces holds
\* exactly one entry per pair (connection point listing the unit as owner,
\* port binding of that connection point), in connection-point order then
\* binding order, each with the binding's port and internal visibility;
\* other connection points contribute nothing.
C18_OneInterfacePerBinding ==
    (mode = "pipeline" /\ stage = "built" /\ UnitsWithPorts # <<>>) =>
        /\ Len(manifest.componentSpec) = Len(UnitsWithPorts)
        /\ \A k \in 1..Len(UnitsWithPorts) :
              LET netifs == manifest.componentSpec[k].networkInterfaces
                  ports == ExpectedPorts(UnitsWithPorts[k].vduId,
                                         descriptor.virtualCpd)
              IN  /\ Len(netifs) = Len(ports)
                  /\ \A i \in 1..Len(ports) :
                        /\ netifs[i].port = ports[i]
                        /\ netifs[i].visibilityType = "VISIBILITY_INTERNAL"

\* The name a unit's component is given: the unit's name, else its identifier.
UnitLabel(v) == IF v.name # <<>> /\ v.name[1] # <<>> THEN v.name[1] ELSE v.vduId

\* C19: a unit yields a component if and only if at least one network
\* interface was derived for it, the components keeping the order of the
\* units; when no unit yields one, componentSpec is exactly one placeholder
\* component named by the sanitized application product name, without
\* interfaces.
C19_ComponentsOfUnitsWithInterfaces ==
    (mode = "pipeline" /\ stage = "built") =>
        IF UnitsWithPorts # <<>>
        THEN /\ Len(manifest.componentSpec) = Len(UnitsWithPorts)
             /\ \A k \in 1..Len(UnitsWithPorts) :
                   /\ manifest.componentSpec[k].componentName
                         = sanitize_component_name(UnitLabel(UnitsWithPorts[k]))
                   /\ manifest.componentSpec[k].networkInterfaces # <<>>
        ELSE manifest.componentSpec =
                <<[componentName |-> sanitize_app_name(descriptor.appProductName),
                   networkInterfaces |-> <<>>]>>

\* Of the units u2 and u1, in this order, only u1 is listed by a connection
\* point with a port binding: the single component is u1's.
C19_Witness ==
    /\ stage = "built"
    /\ Len(descriptor.vdu) = 2
    /\ descriptor.vdu[1].vduId = U2
    /\ descriptor.vdu[2].vduId = U1
    /\ Len(manifest.componentSpec) = 1
    /\ manifest.componentSpec[1].componentName = <<"w", "e", "b">>
    /\ manifest.componentSpec[1].networkInterfaces # <<>>

\* C20: imagePath is built from the name and the version of the first entry
\* of the descriptor's image collection whenever the collection is non-empty,
\* whichever images the containers reference, and is the placeholder
\* docker.io/library/app:latest when the collection is absent or empty.
C20_ImagePathFromFirstImage ==
    (mode = "pipeline" /\ stage = "built") =>
        manifest.imagePath =
            IF descriptor.swImageDesc # <<>>
            THEN [name |-> descriptor.swImageDesc[1].name,
                  version |-> descriptor.swImageDesc[1].version]
            ELSE PlaceholderImage

\* The only container of a unit carries img1 while the collection starts with
\* img2: imagePath is cache:7.
C20_Witness ==
    /\ stage = "built"
    /\ Len(descriptor.swImageDesc) = 2
    /\ descriptor.swImageDesc[1].id = "img2"
    /\ \E u \in 1..Len(descriptor.vdu) :
          /\ Len(descriptor.vdu[u].osContainerDesc) = 1
          /\ descriptor.vdu[u].osContainerDesc[1].swImageDesc = Some(Img1)
    /\ manifest.imagePath = [name |-> <<"c", "a", "c", "h", "e">>, version |-> <<"7">>]

\* Two strings are equal up to letter case.
SameIgnoringCase(a, b) ==
    /\ Len(a) = Len(b)
    /\ \A i \in 1..Len(a) : LowerChar(a[i]) = LowerChar(b[i])

\* C21: a port binding's protocol is matched against the target protocol set
\* ignoring letter case; a protocol name that is not in the set yields the
\* wildcard ANY for that interface, and the build does not fail.
C21_ProtocolCaseInsensitive ==
    (mode = "pipeline" /\ stage = "built") =>
              \A k \in 1..Len(UnitsWithPorts) :
                  \A c \in 1..Len(descriptor.virtualCpd) :
                      (\E o \in 1..Len(descriptor.virtualCpd[c].vdu) :
                          descriptor.virtualCpd[c].vdu[o] = UnitsWithPorts[k].vduId) =>
                      \A a \in 1..Len(descriptor.virtualCpd[c].additionalServiceData) :
                          LET pds == descriptor.virtualCpd[c].additionalServiceData[a].portData
                          IN  \A p \in 1..Len(pds) :
                                pds[p].protocol # Nothing =>
                                    \E n \in 1..Len(manifest.componentSpec[k].networkInterfaces) :
                                        LET netif == manifest.componentSpec[k].networkInterfaces[n]
                                        IN  /\ netif.port = pds[p].port
                                            /\ IF \E name \in {<<"T", "C", "P">>, <<"U", "D", "P">>, <<"A", "N", "Y">>} :
                                                     SameIgnoringCase(pds[p].protocol[1], name)
                                               THEN SameIgnoringCase(pds[p].protocol[1], netif.protocol)
                                               ELSE netif.protocol = <<"A", "N", "Y">>

\* A manifest with an interface for the "tcp" binding of port 80 and one for
\* the "quic" binding of port 443: TCP and ANY.
C21_Witness ==
    /\ stage = "built"
    /\ \E k \in 1..Len(manifest.componentSpec) :
          \E n, m \in 1..Len(manifest.componentSpec[k].networkInterfaces) :
              /\ manifest.componentSpec[k].networkInterfaces[n].port = 80
              /\ manifest.componentSpec[k].networkInterfaces[n].protocol = <<"T", "C", "P">>
              /\ manifest.componentSpec[k].networkInterfaces[m].port = 443
              /\ manifest.componentSpec[k].networkInterfaces[m].protocol = <<"A", "N", "Y">>

\* ------------------------------------------------------------------------
\* Properties of the endpoints
\* ------------------------------------------------------------------------

\* CAMARA answered 200 with a non-empty array whose first element is a record.
FirstRecordRead ==
    /\ mode = "state" /\ stage = "answered"
    /\ raw.instance_id # "not_a_uuid"
    /\ raw.answer.kind = "response" /\ raw.answer.status = 200
    /\ raw.answer.body = "array" /\ raw.answer.records # <<>>
    /\ raw.answer.records[1].kind = "dict"

\* The status is a recognized token of the state's set.
StatusIsOf(st, state) ==
    /\ st # Nothing
    /\ \E ss \in StateSets :
          ss[1] = state /\ \E word \in ss[2] : IsPaddedVariant(st[1], word)

\* C22: only the status field of the first record of CAMARA's array is
\* classified; when it is absent or no recognized token the caller receives a
\* 502 problem response and never a state value.
C22_FirstRecordClassified ==
    FirstRecordRead =>
        LET st == raw.answer.records[1].status
        IN  IF \E ss \in StateSets : StatusIsOf(st, ss[1])
            THEN /\ clean.code = 200
                 /\ clean.state # Nothing
                 /\ StatusIsOf(st, clean.state[1])
            ELSE /\ clean.code = 502
                 /\ clean.state = Nothing

\* The first record has no status and the second is running: 502.
C22_Witness ==
    /\ FirstRecordRead
    /\ Len(raw.answer.records) = 2
    /\ raw.answer.records[1].status = Nothing
    /\ raw.answer.records[2].status = Some(<<" ", "r", "u", "n", "n", "i", "n", "g", " ">>)
    /\ clean.code = 502
    /\ clean.state = Nothing
    /\ Len(sent) = 1

\* ------------------------------------------------------------------------
\* Properties of a refresh that fails or is under way
\* ------------------------------------------------------------------------

\* Thread t's exchange fails in this step: the POST raised, or the answer was
\* not 200 or carried no token.
ExchangeFails(t) == pc[t] = "post" /\ pc'[t] = "raised"

\* C23: a failed token exchange (non-200, missing token, transport error)
\* leaves the cached token and expiry as they were and releases the lock; the
\* failed call sent one POST and does not retry, the cache is still not Valid,
\* and a caller that then checks it under the lock attempts its own exchange.
C23_FailedExchangeLeavesCache ==
    [][\A t \in Threads :
        /\ ExchangeFails(t) =>
              /\ access_token' = access_token
              /\ expires_at' = expires_at
              /\ lock = t /\ lock' = NoThread
              /\ posts' = posts + 1
              /\ ~CacheValid'
        /\ (pc[t] = "raised" /\ pc'[t] # "raised") => calls' = calls + 1
        /\ (pc[t] = "v2" /\ pc'[t] # "v2" /\ ~CacheValid) => pc'[t] = "post"
      ]_vars

\* One caller's exchange failed with the cache untouched, and another caller
\* holds the lock and is about to send its own POST.
C23_Witness ==
    \E t, u \in Threads :
        /\ t # u
        /\ pc[t] = "raised" /\ path[t] = "raise"
        /\ access_token = None /\ expires_at = 0
        /\ posts = 1
        /\ pc[u] = "post" /\ lock = u

\* C24: the lock-free check never succeeds on a half-written refresh.  A
\* caller about to return on the fast path (line 47) returns a token, never
\* None, and the expiry stored for that token minus the skew is after the
\* clock value the caller read.
C24_FastPathTokenOutlivesSkew ==
    \A t \in Threads :
        pc[t] = "ret1" =>
            /\ access_token # None
            /\ tokExp # -1 => tokExp - refresh_skew_seconds > chk[t].at

\* ------------------------------------------------------------------------
\* Properties of the sanitizers' normalization
\* ------------------------------------------------------------------------

\* C25: in each sanitizer the last-resort fallback is unreachable: the value
\* obtained after replacement, prefixing, padding and truncation passes the
\* sanitizer's own re-validation, and it is the value returned.
C25_FallbackUnreachable ==
    /\ (stage \in {"app_name", "component_name"} /\ raw # <<>>) =>
          (ReMatch(AppNameNormalized(raw), 1, 63) /\ clean = AppNameNormalized(raw))
    /\ stage = "app_provider" =>
          (ReMatch(AppProviderNormalized(raw), 7, 63)
           /\ clean = AppProviderNormalized(raw))
    /\ stage = "interface_id" =>
          (ReMatch(InterfaceIdNormalized(raw), 3, 31)
           /\ clean = InterfaceIdNormalized(raw))

\* A provider name that needs replacement, prefixing and padding.
C25_Witness ==
    /\ stage = "app_provider"
    /\ raw = <<"7", "-">>
    /\ clean = <<"P", "_", "7", "_", "_", "p", "r", "o", "v", "i", "d", "e", "r">>

\* The sanitizer whose result the state holds, applied to a string.
SanitizeAs(kind, text) ==
    CASE kind = "app_name" -> sanitize_app_name(text)
      [] kind = "component_name" -> sanitize_component_name(text)
      [] kind = "app_provider" -> sanitize_app_provider(text)
      [] kind = "interface_id" -> sanitize_interface_id(text)

\* The string is in the grammar of the sanitizer of that kind.
InGrammarOf(kind, text) ==
    CASE kind \in {"app_name", "component_name"} -> text # <<>> /\ InGrammar(text, 2, 64)
      [] kind = "app_provider" -> text # <<>> /\ InGrammar(text, 8, 64)
      [] kind = "interface_id" -> text # <<>> /\ InGrammar(text, 4, 32)

\* C26: each sanitizer is idempotent: an input that matches its grammar is
\* returned unchanged, and sanitizing the result again returns the result.
C26_SanitizerIdempotent ==
    stage # "input" =>
        /\ InGrammarOf(stage, raw) => clean = raw
        /\ SanitizeAs(stage, clean) = clean

\* An input outside the grammar of app names: the first pass changes it and
\* a second pass leaves the result as it is.
C26_Witness ==
    /\ stage = "app_name"
    /\ raw = <<"-", "7">>
    /\ clean = <<"A", "_", "7">>
    /\ sanitize_app_name(clean) = clean

\* The positions in a request log of the requests made to CAMARA.
CamaraRequests(log) == {i \in 1..Len(log) : log[i].service = "camara"}

\* The descriptor fetch, the resolution or the build of the request failed.
TranslationFailed ==
    \/ raw.repo.kind = "connect_error"
    \/ raw.repo.status # 200
    \/ raw.body.missing \cap RequiredKeys # {}
    \/ raw.descriptorModel = "rejected"
    \/ raw.manifestModel = "rejected"

\* C27: post_application_onboarding POSTs the manifest to CAMARA at most once
\* per request, after the descriptor GET, and only when the fetch, the
\* resolution and the build succeeded; when one of them fails no request is
\* sent to CAMARA.
C27_ManifestPostedOnceAfterBuild ==
    (mode = "onboard" /\ stage = "answered") =>
        /\ Cardinality(CamaraRequests(sent)) <= 1
        /\ \A i \in CamaraRequests(sent) :
              /\ ~TranslationFailed
              /\ i = 2
              /\ sent[1].service = "app_repo" /\ sent[1].method = "GET"
              /\ sent[i].method = "POST"
              /\ sent[i].json = BuildManifest(ResolvedDescriptor(raw.body))
        /\ TranslationFailed => CamaraRequests(sent) = {}

\* A request whose descriptor was fetched, resolved and built: the manifest
\* with the component of unit u1 was posted once and CAMARA answered 201.
C27_Witness ==
    /\ mode = "onboard" /\ stage = "answered"
    /\ ~TranslationFailed
    /\ Len(raw.body.vdu) = 1
    /\ Len(sent) = 2
    /\ sent[2].service = "camara"
    /\ Len(sent[2].json.componentSpec) = 1
    /\ clean.code = 201

\* C28: when the application-repository request fails, by connection error
\* or by a non-success status, the onboarding endpoint answers with 502.
C28_RepoFailureAnswers502 ==
    (/\ mode = "onboard" /\ stage = "answered"
     /\ (raw.repo.kind = "connect_error" \/ raw.repo.status # 200))
        => clean.code = 502

\* C29: when appInstanceId is no valid UUID, the stop endpoint answers with
\* 422 and sends no DELETE request to CAMARA.
C29_InvalidUuidAnswers422 ==
    (mode = "stop" /\ stage = "answered" /\ raw.appInstanceId # "uuid")
        => (clean.code = 422 /\ sent = <<>>)

====
